---- MODULE Spec2Model ----
(***************************************************************************)
(* Caching, session and coordination subsystem of dgcommander:             *)
(*   - ListObjectsCache and ObjectListingService.list_objects              *)
(*   - the mutation endpoints and their cache invalidation                 *)
(*   - SessionStore / FileSystemSessionStore                               *)
(*   - SavingsJobRunner                                                    *)
(*   - PurgeScheduler and its wiring in app.py                             *)
(* Each subsystem has its own next-state relation over the shared          *)
(* variables; the other subsystems' variables stay unchanged.              *)
(***************************************************************************)
EXTENDS Integers, Sequences, FiniteSets, TLC

\* ------------------------------------------------------------------ bounds
\* mutations of the storage backend in one behaviour
MaxMutations == 2
\* session store: max_size, idle ttl (clock ticks), last clock value, session ids handed out
SessionMaxSize == 2
SessionTtl == 1
MaxTime == 2
MaxSessionIds == 3
\* compute-savings jobs submitted in one behaviour
MaxJobs == 3
\* purge intervals that elapse in one behaviour
MaxIntervals == 2
\* sweeps counted within one interval
MaxSweeps == 2
\* objects in a base listing handed to _filter_and_sort
MaxListLen == 3
\* process kills and file corruptions injected in the session directory
MaxCrashes == 1
MaxCorruptions == 1

\* ------------------------------------------------------------- optionals
\* Python's None / a value: a sequence of length 0 or 1
None == <<>>
Some(x) == <<x>>
IsNone(o) == o = <<>>
Val(o) == o[1]

Put(f, k, v) == [x \in DOMAIN f \cup {k} |-> IF x = k THEN v ELSE f[x]]
Drop(f, k) == [x \in DOMAIN f \ {k} |-> f[x]]
EmptyMap == [x \in {} |-> None]

\* ------------------------------------------------------- listing domain
Buckets == {"b1", "b2"}
Prefixes == {"", "logs/"}
ObjKeys == {"app.zip", "logs/a.log", "notes.txt"}
SortOrders == {"name_asc", "size_desc"}

\* LogicalObject (sdk/models.py): one immutable snapshot per key
LogicalObject(k) ==
    CASE k = "Data.BIN"   -> [key |-> k, rank |-> 0, dir |-> "", original_bytes |-> 4096,
                              stored_bytes |-> 2048, compressed |-> TRUE, modified |-> 3]
      [] k = "app.zip"    -> [key |-> k, rank |-> 1, dir |-> "", original_bytes |-> 120000,
                              stored_bytes |-> 60000, compressed |-> TRUE, modified |-> 3]
      [] k = "logs/a.log" -> [key |-> k, rank |-> 2, dir |-> "logs/", original_bytes |-> 1024,
                              stored_bytes |-> 1024, compressed |-> FALSE, modified |-> 1]
      [] k = "notes.txt"  -> [key |-> k, rank |-> 3, dir |-> "", original_bytes |-> 4096,
                              stored_bytes |-> 4096, compressed |-> FALSE, modified |-> 2]

\* credential payloads a session can hold (api/auth.py create_session)
Cred(e, k, s, r) == [endpoint |-> e, access_key_id |-> k, secret_access_key |-> s, region |-> r]
CredA  == Cred("e", "k1", "s1", "r")
CredA2 == Cred("e", "k1", "s2", "r")
CredB  == Cred("e", "k2", "s1", "r")
CredX  == Cred("e|k1", "x", "s1", "r")
CredY  == Cred("e", "k1|x", "s1", "r")
Credentials == {CredA, CredA2, CredB, CredX, CredY}

\* hashlib.sha256(s).hexdigest()[:16]: the digest is represented by its
\* tagged preimage, i.e. the truncated SHA-256 is taken to be collision free
Sha256Hex16(s) == "#" \o s \o "#"

\* "|".join(parts)
Join3(a, b, c) == a \o "|" \o b \o "|" \o c

\* cred_str of make_credentials_cache_key: secret_access_key is left out
cred_str(credentials) ==
    Join3(credentials.endpoint, credentials.access_key_id, credentials.region)

\* the same key computation without the access key id
make_credentials_cache_key_without_access_key(credentials) ==
    IF DOMAIN credentials = {} THEN "no-credentials"
    ELSE Sha256Hex16(Join3(credentials.endpoint, "", credentials.region))

make_credentials_cache_key(credentials) ==
    IF DOMAIN credentials = {} THEN "no-credentials"
    ELSE Sha256Hex16(cred_str(credentials))

_make_key(credentials_key, bucket, prefix) ==
    Sha256Hex16(Join3(credentials_key, bucket, prefix))

\* str.lower() of a search term, as a string again
lower(str) == CASE str = "A" -> "a" [] str = "Bin" -> "bin" [] OTHER -> str

\* a variant key that leaves the compressed filter out
_variant_key_without_compressed(sort_order, compressed, search) ==
    Join3(sort_order, "all", IF IsNone(search) THEN "" ELSE lower(Val(search)))

\* CachedListing._variant_key; compressed is None | TRUE | FALSE as an optional
_variant_key(sort_order, compressed, search) ==
    Join3(sort_order,
          IF IsNone(compressed) THEN "all" ELSE (IF Val(compressed) THEN "True" ELSE "False"),
          IF IsNone(search) THEN "" ELSE lower(Val(search)))

\* ---------------------------------------------------------- _filter_and_sort
\* the characters of the keys and search terms of the model
Chars(str) ==
    CASE str = "Data.BIN"   -> <<"D", "a", "t", "a", ".", "B", "I", "N">>
      [] str = "app.zip"    -> <<"a", "p", "p", ".", "z", "i", "p">>
      [] str = "logs/a.log" -> <<"l", "o", "g", "s", "/", "a", ".", "l", "o", "g">>
      [] str = "notes.txt"  -> <<"n", "o", "t", "e", "s", ".", "t", "x", "t">>
      [] str = "A"          -> <<"A">>
      [] str = "a"          -> <<"a">>
      [] str = "Bin"        -> <<"B", "i", "n">>
      [] str = "bin"        -> <<"b", "i", "n">>
      [] str = "log"        -> <<"l", "o", "g">>
      [] str = "o"          -> <<"o">>

\* str.lower(), character by character
LowerChar(ch) ==
    CASE ch = "A" -> "a" [] ch = "B" -> "b" [] ch = "D" -> "d" [] ch = "I" -> "i"
      [] ch = "N" -> "n" [] OTHER -> ch
LowerChars(seq) == [i \in 1..Len(seq) |-> LowerChar(seq[i])]

\* Python "needle in haystack" on character sequences
IsSubSeq(needle, haystack) ==
    \E i \in 1..(Len(haystack) - Len(needle) + 1) : SubSeq(haystack, i, i + Len(needle) - 1) = needle

\* list_objects: search_key = search.lower() if search else None
SearchKey(search) ==
    IF IsNone(search) \/ Val(search) = "" THEN None ELSE Some(lower(Val(search)))

\* "search_key in obj.key.lower()"
KeyContains(key, search_key) == IsSubSeq(Chars(search_key), LowerChars(Chars(key)))

SortValue(obj, sort_order) ==
    IF sort_order \in {"name_asc", "name_desc"} THEN obj.rank
    ELSE IF sort_order \in {"size_asc", "size_desc"} THEN obj.original_bytes
    ELSE obj.modified

\* descending order obtained by reversing an ascending sort: ties come out reversed
SortsBeforeReversingTies(x, y, sort_order) ==
    IF sort_order \in {"modified_desc", "name_desc", "size_desc"}
    THEN SortValue(x, sort_order) >= SortValue(y, sort_order)
    ELSE SortValue(x, sort_order) < SortValue(y, sort_order)

\* x sorts strictly before y; list.sort is stable also with reverse=True
SortsBefore(x, y, sort_order) ==
    IF sort_order \in {"modified_desc", "name_desc", "size_desc"}
    THEN SortValue(x, sort_order) > SortValue(y, sort_order)
    ELSE SortValue(x, sort_order) < SortValue(y, sort_order)

RECURSIVE InsertSorted(_, _, _)
InsertSorted(x, s, sort_order) ==
    IF s = <<>> THEN <<x>>
    ELSE IF SortsBefore(x, Head(s), sort_order) THEN <<x>> \o s
    ELSE <<Head(s)>> \o InsertSorted(x, Tail(s), sort_order)

RECURSIVE StableSort(_, _)
StableSort(s, sort_order) ==
    IF s = <<>> THEN <<>>
    ELSE InsertSorted(s[Len(s)], StableSort(SubSeq(s, 1, Len(s) - 1), sort_order), sort_order)

_filter_and_sort(objects, sort_order, compressed, search_key) ==
    LET keep(obj) == /\ (IsNone(compressed) \/ obj.compressed = Val(compressed))
                     /\ (IsNone(search_key) \/ Val(search_key) = ""
                           \/ KeyContains(obj.key, Val(search_key)))
    IN StableSort(SelectSeq(objects, keep), sort_order)

\* ------------------------------------------------------------ StorageSDK
RECURSIVE SeqByRank(_)
SeqByRank(objs) ==
    IF objs = {} THEN <<>>
    ELSE LET first == CHOOSE o \in objs : \A q \in objs : o.rank <= q.rank
         IN <<first>> \o SeqByRank(objs \ {first})

\* sdk.list_objects(bucket, prefix) with Delimiter "/": the objects directly
\* under the prefix in key order, and the sub-directories as common prefixes
SdkListObjects(stored, prefix) ==
    [objects |-> SeqByRank({LogicalObject(k) : k \in {x \in stored : LogicalObject(x).dir = prefix}}),
     common_prefixes |-> IF prefix = "" /\ \E k \in stored : LogicalObject(k).dir = "logs/"
                         THEN <<"logs/">> ELSE <<>>]

\* ================================================================ state
VARIABLES
    \* storage backend behind the StorageSDK: bucket -> set of object keys
    storage,
    \* ghost: number of mutations each bucket has seen
    storage_ver,
    \* ghost: newest mutation of a bucket whose invalidate_bucket has run
    inval_ver,
    \* ghost: newest mutation of a bucket whose endpoint has responded
    responded_ver,
    \* ghost: mutations a bucket had seen when its latest bypass_cache read started
    bypass_ver,
    \* ListObjectsCache._cache / _bucket_index / _prefix_index / _key_index
    cache, bucket_index, prefix_index, key_index,
    \* list_objects calls in progress: position, arguments, locals, return value
    pc, req, loc, result,
    \* mutation endpoints in progress: position and arguments
    mpc, mreq

VARIABLES
    \* which store _init_session_store built: "memory" or "filesystem"
    backend,
    \* time.time()
    now,
    \* SessionStore._sessions, or the *.session files of FileSystemSessionStore
    sessions,
    \* SessionStore._access_order, or the .index file
    access_order,
    \* holder of SessionStore._lock, or of the flock on the .lock file
    store_lock,
    \* store calls in progress: position, arguments, values read so far, return value
    spc, sreq, sloc, sret,
    \* next value of secrets.token_urlsafe
    next_sid

VARIABLES
    \* futures handed out by SavingsJobRunner._executor, in submission order
    futures,
    \* SavingsJobRunner._jobs: bucket -> index of its future
    jobs,
    \* holder of SavingsJobRunner._lock
    runner_lock,
    \* CacheRegistry.pending_jobs
    pending_jobs,
    \* BucketStatsCache of every SDK handle: handle -> bucket -> snapshot
    stats_cache,
    \* compute-savings requests in progress: position, arguments, task id returned
    jpc, jreq, jret

jobVars == <<futures, jobs, runner_lock, pending_jobs, stats_cache, jpc, jreq, jret>>

VARIABLES
    \* worker processes that are running
    alive,
    \* app.extensions["purge_scheduler"] of each app: "absent" or "created"
    extension,
    \* PurgeScheduler._scheduler is set and running
    _scheduler,
    \* PurgeScheduler._lock_file is an open file
    _lock_file,
    \* the open file that holds flock(LOCK_EX) on purge_scheduler.lock, or "none"
    flock_holder,
    \* position of each app inside create_app / start / stop
    ppc,
    \* what start() returned: "none", "true", "false"
    start_ret,
    \* a _run_purge run is due in the instance's scheduler
    due,
    \* elapsed purge intervals, sweeps run in the present one, and the
    \* processes up since it began
    interval, sweeps, up_all_interval,
    \* contents of the file purge_scheduler.lock ("" when absent or empty)
    lock_text,
    \* ghost: the instances whose start() was called again after create_app
    started_again

purgeVars == <<alive, extension, _scheduler, _lock_file, flock_holder, ppc, start_ret, due,
               interval, sweeps, up_all_interval, lock_text, started_again>>

VARIABLES
    \* arguments of a _filter_and_sort call in progress, and its result
    fs_in, fs_out

sortVars == <<fs_in, fs_out>>

VARIABLES
    \* a SessionStore and a FileSystemSessionStore driven by the same calls:
    \* twin = [mem, fs, now, next_sid], twin_ret = the last call's two results
    twin, twin_ret

twinVars == <<twin, twin_ret>>

VARIABLES
    \* the session directory: files = the *.session files (pickled SessionData,
    \* readable or not), index = the bytes of the .index file or none
    disk,
    \* FileSystemSessionStore calls of each worker process: position, the call
    \* and its argument, the list handed to _write_index, the value to return,
    \* the last value returned
    fsproc,
    \* holder of the flock on .lock, time.time(), next token, faults so far;
    \* ghost: the sessions whose file went bad, the last list written completely
    \* and the last list handed to _write_index
    fsenv

diskVars == <<disk, fsproc, fsenv>>

VARIABLES
    \* one run of _run_purge: position, the class that runs it, the SDK it was
    \* built with, the buckets still to purge, the files deleted so far;
    \* ghost: the bucket listing the SDK returned, the purge_temp_files calls
    \* made, the buckets whose purge raised, whether the run raised
    sweep

sweepVars == <<sweep>>

VARIABLES
    \* one S3DeltaGliderSDK: entries = BucketStatsCache._snapshots and
    \* _timestamps, monotonic = time.monotonic(), objects = the keys of each
    \* bucket in the backend; ghost: mutated = the buckets mutated through the
    \* adapter since their snapshot was cached, mutations = mutations so far
    bc,
    \* adapter calls of each thread: position, bucket, values read so far, and
    \* what its last list_buckets returned
    bthr

statsVars == <<bc, bthr>>

VARIABLES
    pg           \* one client paging through a listing
pagingVars == <<pg>>

VARIABLES
    lheld,       \* holder and depth of each lock
    lthr         \* the operation each thread is in and its position
lockVars == <<lheld, lthr>>

VARIABLES
    tmr          \* the purge scheduler's clock, trigger and sweeps run
timerVars == <<tmr>>

VARIABLES
    bulk         \* one bulk_delete_objects call
bulkVars == <<bulk>>

VARIABLES
    sl_thr,      \* the store call each thread is in
    sl_mutex,    \* holder of each process's _local_lock
    sl_flock     \* holder of the flock on the .lock file
storeLockVars == <<sl_thr, sl_mutex, sl_flock>>

sessionVars == <<backend, now, sessions, access_order, store_lock, spc, sreq, sloc, sret, next_sid>>

cacheVars == <<storage, storage_ver, inval_ver, responded_ver, bypass_ver, cache, bucket_index,
               prefix_index, key_index, pc, req, loc, result, mpc, mreq>>

outsideCache == <<sessionVars, jobVars, purgeVars, sortVars, twinVars, diskVars, sweepVars, statsVars, pagingVars, lockVars, timerVars, bulkVars, storeLockVars>>
outsideSession == <<cacheVars, jobVars, purgeVars, sortVars, twinVars, diskVars, sweepVars, statsVars, pagingVars, lockVars, timerVars, bulkVars, storeLockVars>>
outsideJobs == <<cacheVars, sessionVars, purgeVars, sortVars, twinVars, diskVars, sweepVars, statsVars, pagingVars, lockVars, timerVars, bulkVars, storeLockVars>>
outsidePurge == <<cacheVars, sessionVars, jobVars, sortVars, twinVars, diskVars, sweepVars, statsVars, pagingVars, lockVars, timerVars, bulkVars, storeLockVars>>
outsideSort == <<cacheVars, sessionVars, jobVars, purgeVars, twinVars, diskVars, sweepVars, statsVars, pagingVars, lockVars, timerVars, bulkVars, storeLockVars>>
outsideTwin == <<cacheVars, sessionVars, jobVars, purgeVars, sortVars, diskVars, sweepVars, statsVars, pagingVars, lockVars, timerVars, bulkVars, storeLockVars>>
outsideDisk == <<cacheVars, sessionVars, jobVars, purgeVars, sortVars, twinVars, sweepVars, statsVars, pagingVars, lockVars, timerVars, bulkVars, storeLockVars>>

outsideSweep == <<cacheVars, sessionVars, jobVars, purgeVars, sortVars, twinVars, diskVars, statsVars, pagingVars, lockVars, timerVars, bulkVars, storeLockVars>>

outsideStats == <<cacheVars, sessionVars, jobVars, purgeVars, sortVars, twinVars, diskVars, sweepVars, pagingVars, lockVars, timerVars, bulkVars, storeLockVars>>

outsidePaging == <<cacheVars, sessionVars, jobVars, purgeVars, sortVars, twinVars, diskVars, sweepVars, statsVars, lockVars, timerVars, bulkVars, storeLockVars>>

outsideLocks == <<cacheVars, sessionVars, jobVars, purgeVars, sortVars, twinVars, diskVars, sweepVars, statsVars, pagingVars, timerVars, bulkVars, storeLockVars>>

outsideTimer == <<cacheVars, sessionVars, jobVars, purgeVars, sortVars, twinVars, diskVars, sweepVars, statsVars, pagingVars, lockVars, bulkVars, storeLockVars>>

outsideBulk == <<cacheVars, sessionVars, jobVars, purgeVars, sortVars, twinVars, diskVars, sweepVars, statsVars, pagingVars, lockVars, timerVars, storeLockVars>>

outsideStoreLocks == <<cacheVars, sessionVars, jobVars, purgeVars, sortVars, twinVars, diskVars, sweepVars, statsVars, pagingVars, lockVars, timerVars, bulkVars>>

vars == <<cacheVars, sessionVars, jobVars, purgeVars, sortVars, twinVars, diskVars, sweepVars, statsVars, pagingVars, lockVars, timerVars, bulkVars, storeLockVars>>

Threads == {"t1", "t2"}
Mutators == {"m1"}
CompressedFilters == {None}
SearchTerms == {None}
NoReq == [bucket |-> ""]
NoLoc == [base |-> None]
NoResult == [status |-> "none"]

\* ------------------------------------------------------ ListObjectsCache
CurIdx == [key |-> key_index, bucket |-> bucket_index, prefix |-> prefix_index]
SetIdx(idx) ==
    /\ key_index' = idx.key
    /\ bucket_index' = idx.bucket
    /\ prefix_index' = idx.prefix

\* a registration that forgets the bucket index
_register_key_without_bucket_index(idx, key, bucket, prefix) ==
    [key |-> Put(idx.key, key, <<bucket, prefix>>),
     bucket |-> idx.bucket,
     prefix |-> [idx.prefix EXCEPT ![<<bucket, prefix>>] = @ \cup {key}]]

_register_key(idx, key, bucket, prefix) ==
    [key |-> Put(idx.key, key, <<bucket, prefix>>),
     bucket |-> [idx.bucket EXCEPT ![bucket] = @ \cup {key}],
     prefix |-> [idx.prefix EXCEPT ![<<bucket, prefix>>] = @ \cup {key}]]

_remove_key(idx, key) ==
    IF key \notin DOMAIN idx.key THEN idx
    ELSE LET info == idx.key[key]
         IN [key |-> Drop(idx.key, key),
             bucket |-> [idx.bucket EXCEPT ![info[1]] = @ \ {key}],
             prefix |-> [idx.prefix EXCEPT ![info] = @ \ {key}]]

RECURSIVE RemoveKeys(_, _)
RemoveKeys(idx, keys) ==
    IF keys = {} THEN idx
    ELSE LET k == CHOOSE x \in keys : TRUE
         IN RemoveKeys(_remove_key(idx, k), keys \ {k})

\* CachedListing.from_lists; ver and primed_by are ghost fields
CachedListing(objects, common_prefixes, ver, by) ==
    [objects |-> objects, common_prefixes |-> common_prefixes, variants |-> EmptyMap,
     ver |-> ver, primed_by |-> by]

\* invalidate_bucket: pop every indexed key of the bucket from cache and indexes
invalidate_bucket(bucket) ==
    LET keys == bucket_index[bucket]
    IN /\ cache' = [k \in DOMAIN cache \ keys |-> cache[k]]
       /\ SetIdx(RemoveKeys(CurIdx, keys))

\* a cache key per sort order, as for a cache of whole sorted listings
ReqKeyPerSortOrder(r) ==
    _make_key(make_credentials_cache_key(r.cred), r.bucket, r.prefix \o r.sort_order)

ReqKey(r) == _make_key(make_credentials_cache_key(r.cred), r.bucket, r.prefix)
ReqVariantKey(r) == _variant_key(r.sort_order, r.compressed, r.search)

Max(a, b) == IF a >= b THEN a ELSE b
Min(a, b) == IF a <= b THEN a ELSE b

\* value returned by list_objects; ver/src/by/floors are ghost fields
ObjectList(r, objects, common_prefixes, ver, src, by) ==
    [status |-> "ok", objects |-> objects, common_prefixes |-> common_prefixes,
     bucket |-> r.bucket, cred |-> r.cred, ver |-> ver, src |-> src, by |-> by,
     inval_floor |-> r.inval_floor, resp_floor |-> r.resp_floor,
     bypass |-> r.bypass, bypass_floor |-> r.bypass_floor]

\* ------------------------------------ ObjectListingService.list_objects
\* entry of the call: arguments are bound, bypass_cache invalidates the bucket
ListStart(t, c, b, p, so, cf, se, fetch_metadata, bypass_cache) ==
    /\ pc[t] = "idle"
    /\ req' = [req EXCEPT ![t] =
                 [cred |-> c, bucket |-> b, prefix |-> p, sort_order |-> so,
                  compressed |-> cf, search |-> SearchKey(se),
                  use_cache |-> fetch_metadata /\ ~bypass_cache, bypass |-> bypass_cache,
                  inval_floor |-> inval_ver[b], resp_floor |-> responded_ver[b],
                  bypass_floor |-> bypass_ver[b]]]
    /\ IF bypass_cache
       THEN invalidate_bucket(b)
       ELSE UNCHANGED <<cache, bucket_index, prefix_index, key_index>>
    /\ bypass_ver' = IF bypass_cache THEN [bypass_ver EXCEPT ![b] = storage_ver[b]] ELSE bypass_ver
    /\ pc' = [pc EXCEPT ![t] = IF fetch_metadata /\ ~bypass_cache THEN "get_variant" ELSE "fetch"]
    /\ loc' = [loc EXCEPT ![t] = NoLoc]
    /\ result' = [result EXCEPT ![t] = NoResult]
    /\ UNCHANGED <<storage, storage_ver, inval_ver, responded_ver, mpc, mreq>>

    /\ UNCHANGED outsideCache
\* cache.get_variant under the cache lock
ListGetVariant(t) ==
    /\ pc[t] = "get_variant"
    /\ LET r == req[t]
           key == ReqKey(r)
           vk == ReqVariantKey(r)
       IN IF key \notin DOMAIN cache
          THEN \* miss: drop the key from the indexes, fall through to the SDK
               /\ SetIdx(_remove_key(CurIdx, key))
               /\ pc' = [pc EXCEPT ![t] = "fetch"]
               /\ UNCHANGED <<loc, result, req>>
          ELSE LET cached == cache[key]
               IN IF vk \in DOMAIN cached.variants
                  THEN \* variant hit: the call returns the cached variant
                       /\ result' = [result EXCEPT ![t] =
                             ObjectList(r, cached.variants[vk].objects, cached.common_prefixes,
                                        cached.variants[vk].ver, "variant", cached.primed_by)]
                       /\ pc' = [pc EXCEPT ![t] = "idle"]
                       /\ req' = [req EXCEPT ![t] = NoReq]
                       /\ UNCHANGED <<loc, key_index, bucket_index, prefix_index>>
                  ELSE \* variant miss, base hit
                       /\ loc' = [loc EXCEPT ![t] =
                             [base |-> Some(cached.objects), common_prefixes |-> cached.common_prefixes,
                              ver |-> cached.ver, src |-> "base", by |-> cached.primed_by]]
                       /\ pc' = [pc EXCEPT ![t] = "store"]
                       /\ UNCHANGED <<result, req, key_index, bucket_index, prefix_index>>
    /\ UNCHANGED <<storage, storage_ver, inval_ver, responded_ver, bypass_ver, cache, mpc, mreq>>

    /\ UNCHANGED outsideCache
\* sdk.list_objects, outside the cache lock
ListFetch(t) ==
    /\ pc[t] = "fetch"
    /\ LET r == req[t]
           listing == SdkListObjects(storage[r.bucket], r.prefix)
       IN IF r.use_cache
          THEN /\ loc' = [loc EXCEPT ![t] =
                     [base |-> Some(listing.objects), common_prefixes |-> listing.common_prefixes,
                      ver |-> storage_ver[r.bucket], src |-> "sdk", by |-> r.cred]]
               /\ pc' = [pc EXCEPT ![t] = "prime"]
               /\ UNCHANGED <<result, req>>
          ELSE /\ result' = [result EXCEPT ![t] =
                     ObjectList(r, _filter_and_sort(listing.objects, r.sort_order, r.compressed, r.search),
                                listing.common_prefixes, storage_ver[r.bucket], "sdk", r.cred)]
               /\ pc' = [pc EXCEPT ![t] = "idle"]
               /\ req' = [req EXCEPT ![t] = NoReq]
               /\ UNCHANGED loc
    /\ UNCHANGED <<storage, storage_ver, inval_ver, responded_ver, bypass_ver, cache, bucket_index,
                   prefix_index, key_index, mpc, mreq>>

    /\ UNCHANGED outsideCache
\* exceptions sdk.list_objects raises: a missing bucket, any other failure
SdkErrors == {"KeyError", "ClientError"}

\* a failing fetch that answers from the cache entry when there is one
ListFetchFailsServingStale(t) ==
    /\ pc[t] = "fetch"
    /\ \E err \in SdkErrors :
          result' = [result EXCEPT ![t] =
                        IF ReqKey(req[t]) \in DOMAIN cache
                        THEN ObjectList(req[t], cache[ReqKey(req[t])].objects,
                                        cache[ReqKey(req[t])].common_prefixes,
                                        cache[ReqKey(req[t])].ver, "stale",
                                        cache[ReqKey(req[t])].primed_by)
                        ELSE [status |-> "error", error |-> err]]
    /\ pc' = [pc EXCEPT ![t] = "idle"]
    /\ req' = [req EXCEPT ![t] = NoReq]
    /\ UNCHANGED <<storage, storage_ver, inval_ver, responded_ver, bypass_ver, cache, bucket_index,
                   prefix_index, key_index, loc, mpc, mreq>>
    /\ UNCHANGED outsideCache

\* sdk.list_objects raises: the exception leaves list_objects, nothing is cached
ListFetchFails(t) ==
    /\ pc[t] = "fetch"
    /\ \E err \in SdkErrors : result' = [result EXCEPT ![t] = [status |-> "error", error |-> err]]
    /\ pc' = [pc EXCEPT ![t] = "idle"]
    /\ req' = [req EXCEPT ![t] = NoReq]
    /\ UNCHANGED <<storage, storage_ver, inval_ver, responded_ver, bypass_ver, cache, bucket_index,
                   prefix_index, key_index, loc, mpc, mreq>>

    /\ UNCHANGED outsideCache
\* cache.prime_listing under the cache lock
ListPrime(t) ==
    /\ pc[t] = "prime"
    /\ LET r == req[t]
           key == ReqKey(r)
       IN /\ cache' = Put(cache, key,
                          CachedListing(Val(loc[t].base), loc[t].common_prefixes, loc[t].ver, r.cred))
          /\ SetIdx(_register_key(CurIdx, key, r.bucket, r.prefix))
    /\ pc' = [pc EXCEPT ![t] = "store"]
    /\ UNCHANGED <<storage, storage_ver, inval_ver, responded_ver, bypass_ver, req, loc, result, mpc, mreq>>

    /\ UNCHANGED outsideCache
\* _filter_and_sort, then cache.store_variant under the cache lock, then return
ListStoreVariant(t) ==
    /\ pc[t] = "store"
    /\ LET r == req[t]
           key == ReqKey(r)
           vk == ReqVariantKey(r)
           sorted_objects == _filter_and_sort(Val(loc[t].base), r.sort_order, r.compressed, r.search)
       IN /\ IF key \in DOMAIN cache
             THEN cache' = [cache EXCEPT ![key].variants =
                               Put(@, vk, [objects |-> sorted_objects, ver |-> loc[t].ver,
                                           args |-> <<r.sort_order, r.compressed, r.search>>])]
             ELSE UNCHANGED cache
          /\ result' = [result EXCEPT ![t] =
                ObjectList(r, sorted_objects, loc[t].common_prefixes, loc[t].ver, loc[t].src, loc[t].by)]
    /\ pc' = [pc EXCEPT ![t] = "idle"]
    /\ req' = [req EXCEPT ![t] = NoReq]
    /\ loc' = [loc EXCEPT ![t] = NoLoc]
    /\ UNCHANGED <<storage, storage_ver, inval_ver, responded_ver, bypass_ver, bucket_index, prefix_index,
                   key_index, mpc, mreq>>

    /\ UNCHANGED outsideCache
\* TTLCache drops an entry (TTL expiry or size eviction); the indexes keep the key
CacheExpire(key) ==
    /\ key \in DOMAIN cache
    /\ cache' = Drop(cache, key)
    /\ UNCHANGED <<storage, storage_ver, inval_ver, responded_ver, bypass_ver, bucket_index, prefix_index,
                   key_index, pc, req, loc, result, mpc, mreq>>

    /\ UNCHANGED outsideCache
\* ------------------------------------------------------ mutation endpoints
MutationKinds == {"upload", "delete_object", "bulk_delete"}

\* whether the endpoint's CatalogService is built with the shared list cache:
\* objects.py uses get_catalog(), uploads.py builds CatalogService(sdk=sdk)
EndpointListCache(kind) == kind \in {"delete_object", "bulk_delete"}

\* the StorageSDK call of the endpoint (sdk.upload / delete_object / delete_objects)
ApiMutate(m, kind, b, ks) ==
    /\ mpc[m] = "idle"
    /\ storage_ver["b1"] + storage_ver["b2"] < MaxMutations
    /\ ks # {}
    /\ CASE kind = "upload" -> Cardinality(ks) = 1 /\ ks \cap storage[b] = {}
         [] kind = "delete_object" -> Cardinality(ks) = 1 /\ ks \subseteq storage[b]
         [] kind = "bulk_delete" -> ks \subseteq storage[b]
    /\ storage' = [storage EXCEPT ![b] = IF kind = "upload" THEN @ \cup ks ELSE @ \ ks]
    /\ storage_ver' = [storage_ver EXCEPT ![b] = @ + 1]
    /\ mreq' = [mreq EXCEPT ![m] = [kind |-> kind, bucket |-> b, ver |-> storage_ver[b] + 1]]
    /\ mpc' = [mpc EXCEPT ![m] = "invalidate"]
    /\ UNCHANGED <<inval_ver, responded_ver, bypass_ver, cache, bucket_index, prefix_index, key_index,
                   pc, req, loc, result>>

    /\ UNCHANGED outsideCache
\* _CatalogCacheManager.invalidate_listing, then the response is returned
ApiInvalidate(m) ==
    /\ mpc[m] = "invalidate"
    /\ LET b == mreq[m].bucket
       IN /\ IF EndpointListCache(mreq[m].kind)
             THEN /\ invalidate_bucket(b)
                  /\ inval_ver' = [inval_ver EXCEPT ![b] = Max(@, mreq[m].ver)]
             ELSE UNCHANGED <<cache, bucket_index, prefix_index, key_index, inval_ver>>
          /\ responded_ver' = [responded_ver EXCEPT ![b] = Max(@, mreq[m].ver)]
    /\ mpc' = [mpc EXCEPT ![m] = "idle"]
    /\ mreq' = [mreq EXCEPT ![m] = NoReq]
    /\ UNCHANGED <<storage, storage_ver, bypass_ver, pc, req, loc, result>>

    /\ UNCHANGED outsideCache
InitCache ==
    /\ storage = [b \in Buckets |-> IF b = "b1" THEN {"app.zip", "logs/a.log"} ELSE {"notes.txt"}]
    /\ storage_ver = [b \in Buckets |-> 0]
    /\ inval_ver = [b \in Buckets |-> 0]
    /\ bypass_ver = [b \in Buckets |-> 0]
    /\ responded_ver = [b \in Buckets |-> 0]
    /\ cache = EmptyMap
    /\ bucket_index = [b \in Buckets |-> {}]
    /\ prefix_index = [bp \in Buckets \X Prefixes |-> {}]
    /\ key_index = EmptyMap
    /\ pc = [t \in Threads |-> "idle"]
    /\ req = [t \in Threads |-> NoReq]
    /\ loc = [t \in Threads |-> NoLoc]
    /\ result = [t \in Threads |-> NoResult]
    /\ mpc = [m \in Mutators |-> "idle"]
    /\ mreq = [m \in Mutators |-> NoReq]

ListingSteps(Creds, Bs, Ps, SOs, FMs, BPs) ==
    \/ \E t \in Threads, c \in Creds, b \in Bs, p \in Ps, so \in SOs,
          cf \in CompressedFilters, se \in SearchTerms, fm \in FMs, bp \in BPs :
          ListStart(t, c, b, p, so, cf, se, fm, bp)
    \/ \E t \in Threads : ListGetVariant(t)
    \/ \E t \in Threads : ListFetch(t)
    \/ \E t \in Threads : ListFetchFails(t)
    \/ \E t \in Threads : ListPrime(t)
    \/ \E t \in Threads : ListStoreVariant(t)
    \/ \E key \in DOMAIN cache : CacheExpire(key)

MutationSteps(Bs) ==
    \/ \E m \in Mutators, kind \in MutationKinds, b \in Bs, ks \in SUBSET ObjKeys :
          ApiMutate(m, kind, b, ks)
    \/ \E m \in Mutators : ApiInvalidate(m)

\* ======================================================== session stores
Workers == {"w1", "w2"}
SessionCredentials == {CredA, CredA2, CredB}
SessionIds == 1..MaxSessionIds
StoreOps == {"create_or_reuse", "get", "delete", "cleanup_expired", "count"}

Join4(a, b, c, d) == a \o ":" \o b \o ":" \o c \o ":" \o d

\* hashlib.sha256(cred_str).hexdigest(), digest represented by its tagged preimage
Sha256Hex(x) == "#" \o x \o "#"

_hash_credentials(credentials) ==
    Sha256Hex(Join4(credentials.access_key_id, credentials.secret_access_key,
                    credentials.region, credentials.endpoint))

\* expiry already at an idle time of exactly ttl
_is_expired_at_ttl(session_data, time) == (time - session_data.last_accessed) >= SessionTtl

\* expiry by age instead of idle time
_is_expired_by_age(session_data, time) == (time - session_data.created_at) > SessionTtl

_is_expired(session_data, time) == (time - session_data.last_accessed) > SessionTtl

\* the sdk_client is left out
SessionData(credentials, time) ==
    [credentials |-> credentials, last_accessed |-> time, created_at |-> time]

Remove(seq, x) == SelectSeq(seq, LAMBDA y : y # x)
_update_access_order(session_id, order) == Append(Remove(order, session_id), session_id)

RECURSIVE IdsAscending(_)
IdsAscending(ids) ==
    IF ids = {} THEN <<>>
    ELSE LET m == CHOOSE x \in ids : \A y \in ids : x <= y
         IN <<m>> \o IdsAscending(ids \ {m})

\* a lock that never blocks
CanAcquireUnlocked(holder) == TRUE
\* the lock: threading.RLock of the store, flock(LOCK_EX) on the .lock file
CanAcquire(holder) == holder = "free"

\* ---- SessionStore (in memory); st = [sessions, access_order]
\* find_by_credentials_hash: scan in dict (insertion) order
RECURSIVE MemFind(_, _, _, _)
MemFind(st, ids, cred_hash, time) ==
    IF ids = <<>> THEN [id |-> None, st |-> st]
    ELSE LET sid == Head(ids)
         IN IF _hash_credentials(st.sessions[sid].credentials) = cred_hash
            THEN IF ~_is_expired(st.sessions[sid], time)
                 THEN [id |-> Some(sid), st |-> st]
                 ELSE MemFind([sessions |-> Drop(st.sessions, sid),
                               access_order |-> Remove(st.access_order, sid)],
                              Tail(ids), cred_hash, time)
            ELSE MemFind(st, Tail(ids), cred_hash, time)

\* eviction of the session created first
MemEvictFirstCreated(st) ==
    IF st.access_order = <<>> THEN st
    ELSE LET first == CHOOSE x \in DOMAIN st.sessions : \A y \in DOMAIN st.sessions : x <= y
         IN [sessions |-> Drop(st.sessions, first),
             access_order |-> Remove(st.access_order, first)]

MemEvictLru(st) ==
    IF st.access_order = <<>> THEN st
    ELSE [sessions |-> [x \in DOMAIN st.sessions \ {Head(st.access_order)} |-> st.sessions[x]],
          access_order |-> Tail(st.access_order)]

\* ---- FileSystemSessionStore; st = [sessions (the files), access_order (local list)]
\* _find_by_credentials_hash_unlocked: scan the index in order
RECURSIVE FsFind(_, _, _, _)
FsFind(st, ids, cred_hash, time) ==
    IF ids = <<>> THEN [id |-> None, st |-> st]
    ELSE LET sid == Head(ids)
         IN IF sid \notin DOMAIN st.sessions
            THEN FsFind([st EXCEPT !.access_order = Remove(@, sid)], Tail(ids), cred_hash, time)
            ELSE IF _hash_credentials(st.sessions[sid].credentials) = cred_hash
            THEN IF ~_is_expired(st.sessions[sid], time)
                 THEN [id |-> Some(sid), st |-> st]
                 ELSE FsFind([sessions |-> Drop(st.sessions, sid),
                              access_order |-> Remove(st.access_order, sid)],
                             Tail(ids), cred_hash, time)
            ELSE FsFind(st, Tail(ids), cred_hash, time)

\* eviction of the most recently used session
FsEvictMru(st) ==
    IF st.access_order = <<>> THEN st
    ELSE LET last == st.access_order[Len(st.access_order)]
         IN [sessions |-> Drop(st.sessions, last),
             access_order |-> Remove(st.access_order, last)]

FsEvictLru(st) ==
    IF st.access_order = <<>> THEN st
    ELSE [sessions |-> [x \in DOMAIN st.sessions \ {Head(st.access_order)} |-> st.sessions[x]],
          access_order |-> Tail(st.access_order)]

\* an insertion that never makes room
CreateInWithoutEviction(st, size, session_id, credentials, time, evicted) ==
    [sessions |-> Put(st.sessions, session_id, SessionData(credentials, time)),
     access_order |-> _update_access_order(session_id, st.access_order)]

\* insert a new session, evicting the LRU one when the store is at capacity
CreateIn(st, size, session_id, credentials, time, evicted) ==
    LET room == IF size >= SessionMaxSize THEN evicted ELSE st
    IN [sessions |-> Put(room.sessions, session_id, SessionData(credentials, time)),
        access_order |-> _update_access_order(session_id, room.access_order)]

\* _init_session_store: test mode builds the in-memory store, otherwise the filesystem one
InitSessionStore(test_mode) ==
    /\ backend = "unset"
    /\ backend' = IF test_mode THEN "memory" ELSE "filesystem"
    /\ UNCHANGED <<now, sessions, access_order, store_lock, spc, sreq, sloc, sret, next_sid>>

    /\ UNCHANGED outsideSession
\* a call enters the store: takes the lock and does its first read
StoreArgs(op) ==
    CASE op = "create_or_reuse" -> SessionCredentials
      [] op \in {"get", "delete"} -> SessionIds
      [] OTHER -> {0}

StoreAcquire(w, op, arg) ==
    /\ backend # "unset"
    /\ spc[w] = "idle"
    /\ CanAcquire(store_lock)
    /\ op = "create_or_reuse" => next_sid <= MaxSessionIds
    /\ store_lock' = w
    /\ spc' = [spc EXCEPT ![w] = "locked"]
    /\ sreq' = [sreq EXCEPT ![w] =
                  CASE op = "create_or_reuse" -> [op |-> op, credentials |-> arg]
                    [] op \in {"get", "delete"} -> [op |-> op, session_id |-> arg]
                    [] OTHER -> [op |-> op]]
    /\ sloc' = [sloc EXCEPT ![w] =
                  IF backend = "filesystem"
                  THEN CASE op \in {"create_or_reuse", "cleanup_expired", "count"} ->
                              [access_order |-> access_order]
                         [] op = "get" ->
                              [session_data |-> IF arg \in DOMAIN sessions THEN Some(sessions[arg]) ELSE None]
                         [] OTHER -> [op |-> op]
                  ELSE [op |-> op]]
    /\ sret' = [sret EXCEPT ![w] = [op |-> "none"]]
    /\ UNCHANGED <<backend, now, sessions, access_order, next_sid>>

    /\ UNCHANGED outsideSession
\* the call leaves the store: return record kept, lock released
StoreReturn(w, ret) ==
    /\ store_lock' = IF store_lock = w THEN "free" ELSE store_lock
    /\ spc' = [spc EXCEPT ![w] = "idle"]
    /\ sret' = [sret EXCEPT ![w] = ret]
    /\ sreq' = [sreq EXCEPT ![w] = [op |-> "none"]]
    /\ sloc' = [sloc EXCEPT ![w] = [op |-> "none"]]
    /\ UNCHANGED <<backend, now>>

StoreRelease(w, value) == StoreReturn(w, [op |-> sreq[w].op, value |-> value])

\* return of get; expired is a ghost field: the call found the session expired
GetReturn(w, value, expired) ==
    StoreReturn(w, [op |-> sreq[w].op, value |-> value, expired |-> expired])

\* return of create_or_reuse; new and evicted are ghost fields: whether the
\* session was created by this call, and the sessions it dropped to make room
CreateReturn(w, session_id, evicted) ==
    StoreReturn(w, [op |-> sreq[w].op, value |-> session_id, new |-> session_id = next_sid,
                    evicted |-> evicted])

InStore(w, kind, op) == backend = kind /\ spc[w] = "locked" /\ sreq[w].op = op

\* time passes
Tick ==
    /\ now < MaxTime
    /\ now' = now + 1
    /\ UNCHANGED <<backend, sessions, access_order, store_lock, spc, sreq, sloc, sret, next_sid>>

    /\ UNCHANGED outsideSession
\* ---- SessionStore operations (body under the RLock)
MemCreateOrReuse(w) ==
    /\ InStore(w, "memory", "create_or_reuse")
    /\ LET c == sreq[w].credentials
           f == MemFind([sessions |-> sessions, access_order |-> access_order],
                        IdsAscending(DOMAIN sessions), _hash_credentials(c), now)
       IN IF ~IsNone(f.id)
          THEN /\ sessions' = [f.st.sessions EXCEPT ![Val(f.id)].last_accessed = now]
               /\ access_order' = _update_access_order(Val(f.id), f.st.access_order)
               /\ UNCHANGED next_sid
               /\ CreateReturn(w, Val(f.id), {})
          ELSE LET st == CreateIn(f.st, Cardinality(DOMAIN f.st.sessions), next_sid, c, now, MemEvictLru(f.st))
               IN /\ sessions' = st.sessions
                  /\ access_order' = st.access_order
                  /\ next_sid' = next_sid + 1
                  /\ CreateReturn(w, next_sid, DOMAIN f.st.sessions \ DOMAIN st.sessions)

    /\ UNCHANGED outsideSession
MemGet(w) ==
    /\ InStore(w, "memory", "get")
    /\ LET sid == sreq[w].session_id
       IN IF sid \notin DOMAIN sessions
          THEN UNCHANGED <<sessions, access_order>> /\ GetReturn(w, None, FALSE)
          ELSE IF _is_expired(sessions[sid], now)
          THEN /\ sessions' = Drop(sessions, sid)
               /\ access_order' = Remove(access_order, sid)
               /\ GetReturn(w, None, TRUE)
          ELSE /\ sessions' = [sessions EXCEPT ![sid].last_accessed = now]
               /\ access_order' = _update_access_order(sid, access_order)
               /\ GetReturn(w, Some(sessions'[sid]), FALSE)
    /\ UNCHANGED next_sid

    /\ UNCHANGED outsideSession
MemDelete(w) ==
    /\ InStore(w, "memory", "delete")
    /\ sessions' = [x \in DOMAIN sessions \ {sreq[w].session_id} |-> sessions[x]]
    /\ access_order' = Remove(access_order, sreq[w].session_id)
    /\ StoreRelease(w, None)
    /\ UNCHANGED next_sid

    /\ UNCHANGED outsideSession
MemCleanupExpired(w) ==
    /\ InStore(w, "memory", "cleanup_expired")
    /\ LET expired_ids == {sid \in DOMAIN sessions : _is_expired(sessions[sid], now)}
       IN /\ sessions' = [x \in DOMAIN sessions \ expired_ids |-> sessions[x]]
          /\ access_order' = SelectSeq(access_order, LAMBDA x : x \notin expired_ids)
          /\ StoreRelease(w, Cardinality(expired_ids))
    /\ UNCHANGED next_sid

    /\ UNCHANGED outsideSession
MemCount(w) ==
    /\ InStore(w, "memory", "count")
    /\ StoreRelease(w, Cardinality(DOMAIN sessions))
    /\ UNCHANGED <<sessions, access_order, next_sid>>

    /\ UNCHANGED outsideSession
\* ---- FileSystemSessionStore operations (body under RLock + flock)
FsCreateOrReuse(w) ==
    /\ InStore(w, "filesystem", "create_or_reuse")
    /\ LET c == sreq[w].credentials
           f == FsFind([sessions |-> sessions, access_order |-> sloc[w].access_order],
                       sloc[w].access_order, _hash_credentials(c), now)
       IN IF ~IsNone(f.id) /\ Val(f.id) \in DOMAIN f.st.sessions
          THEN /\ sessions' = [f.st.sessions EXCEPT ![Val(f.id)].last_accessed = now]
               /\ access_order' = _update_access_order(Val(f.id), f.st.access_order)
               /\ UNCHANGED next_sid
               /\ CreateReturn(w, Val(f.id), {})
          ELSE LET st == CreateIn(f.st, Len(f.st.access_order), next_sid, c, now, FsEvictLru(f.st))
               IN /\ sessions' = st.sessions
                  /\ access_order' = st.access_order
                  /\ next_sid' = next_sid + 1
                  /\ CreateReturn(w, next_sid, DOMAIN f.st.sessions \ DOMAIN st.sessions)

    /\ UNCHANGED outsideSession
FsGet(w) ==
    /\ InStore(w, "filesystem", "get")
    /\ LET sid == sreq[w].session_id
           loaded == sloc[w].session_data
       IN IF IsNone(loaded)
          THEN UNCHANGED <<sessions, access_order>> /\ GetReturn(w, None, FALSE)
          ELSE IF _is_expired(Val(loaded), now)
          THEN /\ sessions' = [x \in DOMAIN sessions \ {sid} |-> sessions[x]]
               /\ access_order' = Remove(access_order, sid)
               /\ GetReturn(w, None, TRUE)
          ELSE /\ sessions' = Put(sessions, sid, [Val(loaded) EXCEPT !.last_accessed = now])
               /\ access_order' = _update_access_order(sid, access_order)
               /\ GetReturn(w, Some(sessions'[sid]), FALSE)
    /\ UNCHANGED next_sid

    /\ UNCHANGED outsideSession
FsDelete(w) ==
    /\ InStore(w, "filesystem", "delete")
    /\ sessions' = [x \in DOMAIN sessions \ {sreq[w].session_id} |-> sessions[x]]
    /\ access_order' = Remove(access_order, sreq[w].session_id)
    /\ StoreRelease(w, None)
    /\ UNCHANGED next_sid

    /\ UNCHANGED outsideSession
FsCleanupExpired(w) ==
    /\ InStore(w, "filesystem", "cleanup_expired")
    /\ LET listed == {sloc[w].access_order[i] : i \in 1..Len(sloc[w].access_order)}
           gone == {sid \in listed : sid \notin DOMAIN sessions \/ _is_expired(sessions[sid], now)}
       IN /\ sessions' = [x \in DOMAIN sessions \ gone |-> sessions[x]]
          /\ access_order' = SelectSeq(sloc[w].access_order, LAMBDA x : x \notin gone)
          /\ StoreRelease(w, Cardinality(gone))
    /\ UNCHANGED next_sid

    /\ UNCHANGED outsideSession
FsCount(w) ==
    /\ InStore(w, "filesystem", "count")
    /\ StoreRelease(w, Len(sloc[w].access_order))
    /\ UNCHANGED <<sessions, access_order, next_sid>>

    /\ UNCHANGED outsideSession
NextSession ==
    \/ \E test_mode \in BOOLEAN : InitSessionStore(test_mode)
    \/ \E w \in Workers, op \in StoreOps : \E arg \in StoreArgs(op) : StoreAcquire(w, op, arg)
    \/ \E w \in Workers : MemCreateOrReuse(w)
    \/ \E w \in Workers : MemGet(w)
    \/ \E w \in Workers : MemDelete(w)
    \/ \E w \in Workers : MemCleanupExpired(w)
    \/ \E w \in Workers : MemCount(w)
    \/ \E w \in Workers : FsCreateOrReuse(w)
    \/ \E w \in Workers : FsGet(w)
    \/ \E w \in Workers : FsDelete(w)
    \/ \E w \in Workers : FsCleanupExpired(w)
    \/ \E w \in Workers : FsCount(w)
    \/ Tick


InitSession ==
    /\ backend = "unset"
    /\ now = 0
    /\ sessions = EmptyMap
    /\ access_order = <<>>
    /\ store_lock = "free"
    /\ spc = [w \in Workers |-> "idle"]
    /\ sreq = [w \in Workers |-> [op |-> "none"]]
    /\ sloc = [w \in Workers |-> [op |-> "none"]]
    /\ sret = [w \in Workers |-> [op |-> "none"]]
    /\ next_sid = 1


\* ======================================================= SavingsJobRunner
Clients == {"c1", "c2"}
\* SDK handles: the container's (deps.build_services) and a session's (auth middleware)
SdkHandles == {"container", "session"}
ExecutorMaxWorkers == 2

Done(f) == f.state \in {"done_ok", "done_error"}
FutureIds == 1..Len(futures)
InFlight(bucket) == {i \in FutureIds : futures[i].bucket = bucket /\ ~Done(futures[i])}
\* a worker thread is taken while it runs the job and while it runs the done callback
BusyWorkers == {i \in FutureIds : futures[i].state \in {"running", "pushed"} \/ futures[i].finalize_due}

\* SavingsJobRunner.pending
JobRunnerPending(bucket) == bucket \in DOMAIN jobs /\ ~Done(futures[jobs[bucket]])

\* enqueue: "existing and not existing.done()"
AlreadyRunningNever(bucket) == FALSE
AlreadyRunning(bucket) == bucket \in DOMAIN jobs /\ ~Done(futures[jobs[bucket]])

\* catalog.mark_pending / catalog.caches.clear_pending reach the CacheRegistry
CatalogMarkPending(pending, bucket) == pending \cup {bucket}
clear_pending(pending, bucket) == pending \ {bucket}
is_pending(bucket) == bucket \in pending_jobs

\* _finalize body: drop the bucket's future once it is done
_finalize(js, fs, bucket) ==
    IF bucket \in DOMAIN js /\ Done(fs[js[bucket]]) THEN Drop(js, bucket) ELSE js

\* the snapshot _run_job computes from sdk.list_objects(bucket, prefix="")
RECURSIVE SumBytes(_, _)
SumBytes(objs, field) ==
    IF objs = <<>> THEN 0 ELSE Head(objs)[field] + SumBytes(Tail(objs), field)

BucketSnapshot(bucket, objs) ==
    [name |-> bucket, object_count |-> Len(objs), original_bytes |-> SumBytes(objs, "original_bytes"),
     stored_bytes |-> SumBytes(objs, "stored_bytes"), computed_at |-> "now"]

_placeholder_snapshot(bucket) ==
    [name |-> bucket, object_count |-> 0, original_bytes |-> 0, stored_bytes |-> 0,
     computed_at |-> "None"]

\* one entry of the list_buckets endpoint's payload for a session using SDK handle sdk
ListBucketsEntry(sdk, bucket) ==
    [stats |-> IF IsNone(stats_cache[sdk][bucket]) THEN _placeholder_snapshot(bucket)
               ELSE Val(stats_cache[sdk][bucket]),
     pending |-> JobRunnerPending(bucket)]

\* the snapshot _refresh_bucket_stats builds from the client's statistics of the whole bucket
RefreshedSnapshot(bucket) == BucketSnapshot(bucket, SeqByRank({LogicalObject(k) : k \in storage[bucket]}))

\* bucket_stats endpoint -> compute_bucket_stats -> _refresh_bucket_stats succeeds:
\* the fresh snapshot goes into the caller SDK's cache
RefreshBucketStats(sdk, bucket) ==
    /\ stats_cache[sdk][bucket] # Some(RefreshedSnapshot(bucket))
    /\ stats_cache' = [stats_cache EXCEPT ![sdk][bucket] = Some(RefreshedSnapshot(bucket))]
    /\ UNCHANGED <<futures, jobs, runner_lock, pending_jobs, jpc, jreq, jret>>
    /\ UNCHANGED outsideJobs

\* _refresh_bucket_stats, except branch: the cached snapshot is removed and a
\* placeholder returned
RefreshBucketStatsFails(sdk, bucket) ==
    /\ ~IsNone(stats_cache[sdk][bucket])
    /\ stats_cache' = [stats_cache EXCEPT ![sdk][bucket] = None]
    /\ UNCHANGED <<futures, jobs, runner_lock, pending_jobs, jpc, jreq, jret>>
    /\ UNCHANGED outsideJobs

\* compute_savings endpoint up to the enqueue call: invalidates the caller's stats
ComputeSavings(c, sdk, bucket) ==
    /\ jpc[c] = "idle"
    /\ Len(futures) + Cardinality({x \in Clients : jpc[x] = "enqueue"}) < MaxJobs
    /\ stats_cache' = [stats_cache EXCEPT ![sdk][bucket] = None]
    /\ jreq' = [jreq EXCEPT ![c] = [bucket |-> bucket, sdk |-> sdk, before |-> stats_cache[sdk][bucket]]]
    /\ jpc' = [jpc EXCEPT ![c] = "enqueue"]
    /\ jret' = [jret EXCEPT ![c] = None]
    /\ UNCHANGED <<futures, jobs, runner_lock, pending_jobs>>
    /\ UNCHANGED outsideJobs

\* enqueue, under the lock: return the running job's id, or mark pending and submit
EnqueueSubmit(c) ==
    /\ jpc[c] = "enqueue"
    /\ runner_lock = "free"
    /\ LET bucket == jreq[c].bucket
       IN IF AlreadyRunning(bucket)
          THEN /\ jret' = [jret EXCEPT ![c] = Some(jobs[bucket])]
               /\ jpc' = [jpc EXCEPT ![c] = "idle"]
               /\ jreq' = [jreq EXCEPT ![c] = NoReq]
               /\ UNCHANGED <<futures, runner_lock, pending_jobs>>
          ELSE /\ pending_jobs' = CatalogMarkPending(pending_jobs, bucket)
               /\ futures' = Append(futures, [bucket |-> bucket, sdk |-> jreq[c].sdk, state |-> "queued",
                                              registered |-> FALSE, finalize_due |-> FALSE,
                                              before |-> jreq[c].before, snapshot |-> None])
               /\ runner_lock' = c
               /\ jpc' = [jpc EXCEPT ![c] = "register"]
               /\ UNCHANGED <<jret, jreq>>
    /\ UNCHANGED <<jobs, stats_cache>>
    /\ UNCHANGED outsideJobs

\* enqueue, still under the lock: add_done_callback, _jobs[bucket] = future, return
EnqueueRegister(c) ==
    /\ jpc[c] = "register"
    /\ LET bucket == jreq[c].bucket
           i == Len(futures)
       IN IF Done(futures[i])
          THEN \* the callback runs at once, in this thread
               /\ jobs' = Put(_finalize(jobs, futures, bucket), bucket, i)
               /\ UNCHANGED futures
          ELSE /\ futures' = [futures EXCEPT ![i].registered = TRUE]
               /\ jobs' = Put(jobs, bucket, i)
    /\ jret' = [jret EXCEPT ![c] = Some(Len(futures))]
    /\ runner_lock' = "free"
    /\ jpc' = [jpc EXCEPT ![c] = "idle"]
    /\ jreq' = [jreq EXCEPT ![c] = NoReq]
    /\ UNCHANGED <<pending_jobs, stats_cache>>
    /\ UNCHANGED outsideJobs

\* a pool thread takes the oldest queued job
JobStart(i) ==
    /\ i \in FutureIds
    /\ futures[i].state = "queued"
    /\ \A k \in 1..(i - 1) : futures[k].state # "queued"
    /\ Cardinality(BusyWorkers) < ExecutorMaxWorkers
    /\ futures' = [futures EXCEPT ![i].state = "running"]
    /\ UNCHANGED <<jobs, runner_lock, pending_jobs, stats_cache, jpc, jreq, jret>>
    /\ UNCHANGED outsideJobs

\* _run_job up to its return statement: snapshot computed and pushed through
\* catalog.update_savings, which writes to the stats cache of the catalog's own SDK
JobUpdateSavings(i) ==
    /\ i \in FutureIds
    /\ futures[i].state = "running"
    /\ LET bucket == futures[i].bucket
           snapshot == BucketSnapshot(bucket, SdkListObjects(storage[bucket], "").objects)
       IN /\ stats_cache' = [stats_cache EXCEPT !["container"][bucket] = Some(snapshot)]
          /\ futures' = [futures EXCEPT ![i].state = "pushed", ![i].snapshot = Some(snapshot)]
    /\ UNCHANGED <<jobs, runner_lock, pending_jobs, jpc, jreq, jret>>
    /\ UNCHANGED outsideJobs

\* _run_job returns task_id: the executor sets the future's result, the future is done
JobSucceed(i) ==
    /\ i \in FutureIds
    /\ futures[i].state = "pushed"
    /\ futures' = [futures EXCEPT ![i].state = "done_ok", ![i].finalize_due = futures[i].registered]
    /\ UNCHANGED <<jobs, runner_lock, pending_jobs, stats_cache, jpc, jreq, jret>>
    /\ UNCHANGED outsideJobs

\* _run_job raises: the except branch clears the pending flag
JobFail(i) ==
    /\ i \in FutureIds
    /\ futures[i].state = "running"
    /\ pending_jobs' = clear_pending(pending_jobs, futures[i].bucket)
    /\ futures' = [futures EXCEPT ![i].state = "done_error", ![i].finalize_due = futures[i].registered]
    /\ UNCHANGED <<jobs, runner_lock, stats_cache, jpc, jreq, jret>>
    /\ UNCHANGED outsideJobs

\* the done callback, run by the pool thread: _finalize under the lock
Finalize(i) ==
    /\ i \in FutureIds
    /\ futures[i].finalize_due
    /\ runner_lock = "free"
    /\ jobs' = _finalize(jobs, futures, futures[i].bucket)
    /\ futures' = [futures EXCEPT ![i].finalize_due = FALSE]
    /\ UNCHANGED <<runner_lock, pending_jobs, stats_cache, jpc, jreq, jret>>
    /\ UNCHANGED outsideJobs

NextJobs ==
    \/ \E c \in Clients, sdk \in SdkHandles, b \in Buckets : ComputeSavings(c, sdk, b)
    \/ \E c \in Clients : EnqueueSubmit(c)
    \/ \E c \in Clients : EnqueueRegister(c)
    \/ \E i \in 1..MaxJobs : JobStart(i)
    \/ \E i \in 1..MaxJobs : JobUpdateSavings(i)
    \/ \E i \in 1..MaxJobs : JobSucceed(i)
    \/ \E i \in 1..MaxJobs : JobFail(i)
    \/ \E i \in 1..MaxJobs : Finalize(i)
    \/ RefreshBucketStats("session", "b1")
    \/ RefreshBucketStatsFails("session", "b1")

InitJobs ==
    /\ futures = <<>>
    /\ jobs = EmptyMap
    /\ runner_lock = "free"
    /\ pending_jobs = {}
    /\ stats_cache = [h \in SdkHandles |-> [b \in Buckets |-> None]]
    /\ jpc = [c \in Clients |-> "idle"]
    /\ jreq = [c \in Clients |-> NoReq]
    /\ jret = [c \in Clients |-> None]


\* ========================================================= PurgeScheduler
\* apps, each with one PurgeScheduler on the same lock path; a1 and a2 live in
\* one process, a3 in another
Apps == {"a1", "a2", "a3"}
Processes == {"p1", "p2"}
ProcessOf(a) == IF a = "a3" THEN "p2" ELSE "p1"

\* os.getpid(); a worker restarted by the process manager is given the PID of its slot
getpid(p) == IF p = "p1" THEN 4101 ELSE 4102

Digit(d) == SubSeq("0123456789", d + 1, d + 1)
\* str(n) for n >= 0
RECURSIVE Decimal(_)
Decimal(n) == IF n < 10 THEN Digit(n) ELSE Decimal(n \div 10) \o Digit(n % 10)
\* f"{os.getpid()}\n"
PidText(pid) == Decimal(pid) \o "\n"

\* flock(LOCK_EX | LOCK_NB) that never fails
TryFlockAlways(holder) == TRUE
\* flock(LOCK_EX | LOCK_NB) on a fresh open file: fails while another open file holds it
TryFlock(holder) == holder = "none"

\* a release that closes the instance's file and leaves the flock held
_release_lock_keeping_flock(a) ==
    /\ _lock_file' = [_lock_file EXCEPT ![a] = FALSE]
    /\ UNCHANGED flock_holder

\* _release_lock
_release_lock(a) ==
    /\ _lock_file' = [_lock_file EXCEPT ![a] = FALSE]
    /\ flock_holder' = IF _lock_file[a] /\ flock_holder = a THEN "none" ELSE flock_holder

\* a worker process comes up (first start, or restart by the process manager)
ProcessStart(p) ==
    /\ ~alive[p]
    /\ alive' = [alive EXCEPT ![p] = TRUE]
    /\ UNCHANGED <<extension, _scheduler, _lock_file, flock_holder, ppc, start_ret, due,
                   interval, sweeps, up_all_interval,
                   lock_text, started_again>>
    /\ UNCHANGED outsidePurge

\* the process ends (shutdown or crash): its threads and open files go, the OS drops its flock
ProcessExit(p) ==
    /\ alive[p]
    /\ alive' = [alive EXCEPT ![p] = FALSE]
    /\ extension' = [a \in Apps |-> IF ProcessOf(a) = p THEN "absent" ELSE extension[a]]
    /\ _scheduler' = [a \in Apps |-> IF ProcessOf(a) = p THEN FALSE ELSE _scheduler[a]]
    /\ _lock_file' = [a \in Apps |-> IF ProcessOf(a) = p THEN FALSE ELSE _lock_file[a]]
    /\ flock_holder' = IF flock_holder # "none" /\ ProcessOf(flock_holder) = p THEN "none" ELSE flock_holder
    /\ ppc' = [a \in Apps |-> IF ProcessOf(a) = p THEN "idle" ELSE ppc[a]]
    /\ start_ret' = [a \in Apps |-> IF ProcessOf(a) = p THEN "none" ELSE start_ret[a]]
    /\ due' = [a \in Apps |-> IF ProcessOf(a) = p THEN FALSE ELSE due[a]]
    /\ up_all_interval' = up_all_interval \ {p}
    /\ started_again' = {a \in started_again : ProcessOf(a) # p}
    /\ UNCHANGED <<interval, sweeps, lock_text>>
    /\ UNCHANGED outsidePurge

\* create_app -> _maybe_start_purge_scheduler: the scheduler is built and registered
MaybeStartPurgeScheduler(a) ==
    /\ alive[ProcessOf(a)]
    /\ extension[a] = "absent"
    /\ extension' = [extension EXCEPT ![a] = "created"]
    /\ ppc' = [ppc EXCEPT ![a] = "start"]
    /\ UNCHANGED <<alive, _scheduler, _lock_file, flock_holder, start_ret, due,
                   interval, sweeps, up_all_interval,
                   lock_text, started_again>>
    /\ UNCHANGED outsidePurge

\* start(), up to the flock attempt
StartTryLock(a) ==
    /\ ppc[a] = "start"
    /\ IF _scheduler[a]
       THEN /\ start_ret' = [start_ret EXCEPT ![a] = "false"]
            /\ ppc' = [ppc EXCEPT ![a] = "idle"]
            /\ UNCHANGED <<_lock_file, flock_holder>>
       ELSE IF TryFlock(flock_holder)
            THEN /\ _lock_file' = [_lock_file EXCEPT ![a] = TRUE]
                 /\ flock_holder' = a
                 /\ ppc' = [ppc EXCEPT ![a] = "start_locked"]
                 /\ UNCHANGED start_ret
            ELSE \* OSError: close the file, return False
                 /\ _lock_file' = [_lock_file EXCEPT ![a] = FALSE]
                 /\ start_ret' = [start_ret EXCEPT ![a] = "false"]
                 /\ ppc' = [ppc EXCEPT ![a] = "idle"]
                 /\ UNCHANGED flock_holder
    \* open(self._lock_path, "w") empties the file; the winner writes its PID
    /\ lock_text' = IF _scheduler[a] THEN lock_text
                    ELSE IF TryFlock(flock_holder) THEN PidText(getpid(ProcessOf(a)))
                    ELSE ""
    /\ UNCHANGED <<alive, extension, _scheduler, due, interval, sweeps, up_all_interval,
                   started_again>>
    /\ UNCHANGED outsidePurge

\* start(), lock held: interval job added, scheduler started, startup run added
StartScheduler(a) ==
    /\ ppc[a] = "start_locked"
    /\ _scheduler' = [_scheduler EXCEPT ![a] = TRUE]
    /\ due' = [due EXCEPT ![a] = TRUE]
    /\ start_ret' = [start_ret EXCEPT ![a] = "true"]
    /\ ppc' = [ppc EXCEPT ![a] = "idle"]
    /\ UNCHANGED <<alive, extension, _lock_file, flock_holder, interval, sweeps, up_all_interval,
                   lock_text, started_again>>
    /\ UNCHANGED outsidePurge

\* start(), lock held: building or starting the scheduler raises
StartSchedulerFails(a) ==
    /\ ppc[a] = "start_locked"
    /\ _release_lock(a)
    /\ start_ret' = [start_ret EXCEPT ![a] = "false"]
    /\ ppc' = [ppc EXCEPT ![a] = "idle"]
    /\ UNCHANGED <<alive, extension, _scheduler, due, interval, sweeps, up_all_interval,
                   lock_text, started_again>>
    /\ UNCHANGED outsidePurge

\* a request ends: teardown_appcontext runs stop_purge_scheduler; stop() shuts the scheduler down
TeardownStop(a) ==
    /\ extension[a] = "created"
    /\ ppc[a] = "idle"
    /\ _scheduler' = [_scheduler EXCEPT ![a] = FALSE]
    /\ due' = [due EXCEPT ![a] = FALSE]
    /\ ppc' = [ppc EXCEPT ![a] = "release"]
    /\ UNCHANGED <<alive, extension, _lock_file, flock_holder, start_ret, interval, sweeps, up_all_interval,
                   lock_text, started_again>>
    /\ UNCHANGED outsidePurge

\* stop(), second half: _release_lock
TeardownRelease(a) ==
    /\ ppc[a] = "release"
    /\ _release_lock(a)
    /\ ppc' = [ppc EXCEPT ![a] = "idle"]
    /\ UNCHANGED <<alive, extension, _scheduler, start_ret, due, interval, sweeps, up_all_interval,
                   lock_text, started_again>>
    /\ UNCHANGED outsidePurge

\* start() is called again on an instance that create_app built
StartAgain(a) ==
    /\ alive[ProcessOf(a)]
    /\ extension[a] = "created"
    /\ ppc[a] = "idle"
    /\ ppc' = [ppc EXCEPT ![a] = "start"]
    /\ start_ret' = [start_ret EXCEPT ![a] = "none"]
    /\ started_again' = started_again \cup {a}
    /\ UNCHANGED <<alive, extension, _scheduler, _lock_file, flock_holder, due,
                   interval, sweeps, up_all_interval, lock_text>>
    /\ UNCHANGED outsidePurge

\* the scheduler's thread runs a due _run_purge
RunPurge(a) ==
    /\ _scheduler[a]
    /\ due[a]
    /\ sweeps < MaxSweeps
    /\ due' = [due EXCEPT ![a] = FALSE]
    /\ sweeps' = sweeps + 1
    /\ UNCHANGED <<alive, extension, _scheduler, _lock_file, flock_holder, ppc, start_ret,
                   interval, up_all_interval,
                   lock_text, started_again>>
    /\ UNCHANGED outsidePurge

\* one purge interval elapses: every running scheduler's interval job comes due.
\* An interval is long against a worker's boot and against a due job's start:
\* every running process has finished create_app, and no running scheduler has
\* a job still due, when it ends.
IntervalElapses ==
    /\ interval < MaxIntervals
    /\ \A a \in Apps : alive[ProcessOf(a)] => extension[a] = "created" /\ ppc[a] \notin {"start", "start_locked"}
    /\ \A a \in Apps : ~(_scheduler[a] /\ due[a])
    /\ interval' = interval + 1
    /\ sweeps' = 0
    /\ due' = [a \in Apps |-> _scheduler[a]]
    /\ up_all_interval' = {p \in Processes : alive[p]}
    /\ UNCHANGED <<alive, extension, _scheduler, _lock_file, flock_holder, ppc, start_ret,
                   lock_text, started_again>>
    /\ UNCHANGED outsidePurge

NextPurge ==
    \/ \E p \in Processes : ProcessStart(p)
    \/ \E p \in Processes : ProcessExit(p)
    \/ \E a \in Apps : MaybeStartPurgeScheduler(a)
    \/ \E a \in Apps : StartTryLock(a)
    \/ \E a \in Apps : StartScheduler(a)
    \/ \E a \in Apps : StartSchedulerFails(a)
    \/ \E a \in Apps : TeardownStop(a)
    \/ \E a \in Apps : TeardownRelease(a)
    \/ \E a \in Apps : RunPurge(a)
    \/ IntervalElapses

\* the fleet in normal operation: the scheduler library starts without error
NextFleet ==
    \/ \E p \in Processes : ProcessStart(p)
    \/ \E p \in Processes : ProcessExit(p)
    \/ \E a \in Apps : MaybeStartPurgeScheduler(a)
    \/ \E a \in Apps : StartTryLock(a)
    \/ \E a \in Apps : StartScheduler(a)
    \/ \E a \in Apps : TeardownStop(a)
    \/ \E a \in Apps : TeardownRelease(a)
    \/ \E a \in Apps : RunPurge(a)
    \/ IntervalElapses

\* the fleet with callers that start a PurgeScheduler again
NextLease ==
    \/ \E p \in Processes : ProcessStart(p)
    \/ \E p \in Processes : ProcessExit(p)
    \/ \E a \in Apps : MaybeStartPurgeScheduler(a)
    \/ \E a \in Apps : StartTryLock(a)
    \/ \E a \in Apps : StartScheduler(a)
    \/ \E a \in Apps : TeardownStop(a)
    \/ \E a \in Apps : TeardownRelease(a)
    \/ \E a \in Apps : StartAgain(a)

InitPurge ==
    /\ alive = [p \in Processes |-> FALSE]
    /\ extension = [a \in Apps |-> "absent"]
    /\ _scheduler = [a \in Apps |-> FALSE]
    /\ _lock_file = [a \in Apps |-> FALSE]
    /\ flock_holder = "none"
    /\ ppc = [a \in Apps |-> "idle"]
    /\ start_ret = [a \in Apps |-> "none"]
    /\ due = [a \in Apps |-> FALSE]
    /\ interval = 0
    /\ sweeps = 0
    /\ up_all_interval = {}
    /\ lock_text = ""
    /\ started_again = {}


\* ================================================= _filter_and_sort calls
SortKeys == {"Data.BIN", "app.zip", "logs/a.log", "notes.txt"}
AllSortOrders == {"name_asc", "name_desc", "modified_desc", "modified_asc", "size_asc", "size_desc"}
AllCompressedFilters == {None, Some(TRUE), Some(FALSE)}
AllSearchTerms == {None, Some(""), Some("A"), Some("Bin"), Some("o")}

\* base listings: sequences of distinct objects, in any order
BaseListings ==
    {[i \in 1..Len(ks) |-> LogicalObject(ks[i])] :
        ks \in {q \in UNION {[1..n -> SortKeys] : n \in 0..MaxListLen} :
                   \A i, j \in DOMAIN q : i # j => q[i] # q[j]}}

\* list_objects reaches _filter_and_sort with a base listing and its arguments
FilterSortCall(objects, sort_order, compressed, search) ==
    /\ IsNone(fs_in)
    /\ fs_in' = Some([objects |-> objects, sort_order |-> sort_order,
                      compressed |-> compressed, search |-> search])
    /\ fs_out' = None
    /\ UNCHANGED outsideSort

\* _filter_and_sort returns
FilterSortReturn ==
    /\ ~IsNone(fs_in)
    /\ IsNone(fs_out)
    /\ fs_out' = Some(_filter_and_sort(Val(fs_in).objects, Val(fs_in).sort_order,
                                       Val(fs_in).compressed, SearchKey(Val(fs_in).search)))
    /\ UNCHANGED fs_in
    /\ UNCHANGED outsideSort

\* the page is cut and the call is over
FilterSortDone ==
    /\ ~IsNone(fs_out)
    /\ fs_in' = None
    /\ fs_out' = None
    /\ UNCHANGED outsideSort

NextSort ==
    \/ \E objects \in BaseListings, so \in AllSortOrders, cf \in AllCompressedFilters,
          se \in AllSearchTerms : FilterSortCall(objects, so, cf, se)
    \/ FilterSortReturn
    \/ FilterSortDone

InitSort ==
    /\ fs_in = None
    /\ fs_out = None


\* ============================= the two session stores, call by call
EmptyStore == [sessions |-> EmptyMap, access_order |-> <<>>]

\* one SessionStore method, from entry to return, on store value st
MemCall(st, op, arg, time, new_id) ==
    CASE op = "create_or_reuse" ->
           LET f == MemFind(st, IdsAscending(DOMAIN st.sessions), _hash_credentials(arg), time)
           IN IF ~IsNone(f.id)
              THEN [st |-> [sessions |-> [f.st.sessions EXCEPT ![Val(f.id)].last_accessed = time],
                            access_order |-> _update_access_order(Val(f.id), f.st.access_order)],
                    ret |-> [op |-> op, new |-> FALSE, value |-> Val(f.id), evicted |-> {}]]
              ELSE LET st2 == CreateIn(f.st, Cardinality(DOMAIN f.st.sessions), new_id, arg, time,
                                       MemEvictLru(f.st))
                   IN [st |-> st2,
                       ret |-> [op |-> op, new |-> TRUE, value |-> new_id,
                                evicted |-> DOMAIN f.st.sessions \ DOMAIN st2.sessions]]
      [] op = "get" ->
           IF arg \notin DOMAIN st.sessions
           THEN [st |-> st, ret |-> [op |-> op, value |-> None]]
           ELSE IF _is_expired(st.sessions[arg], time)
           THEN [st |-> [sessions |-> Drop(st.sessions, arg),
                         access_order |-> Remove(st.access_order, arg)],
                 ret |-> [op |-> op, value |-> None]]
           ELSE [st |-> [sessions |-> [st.sessions EXCEPT ![arg].last_accessed = time],
                         access_order |-> _update_access_order(arg, st.access_order)],
                 ret |-> [op |-> op, value |-> Some([st.sessions[arg] EXCEPT !.last_accessed = time])]]
      [] op = "delete" ->
           [st |-> [sessions |-> [x \in DOMAIN st.sessions \ {arg} |-> st.sessions[x]],
                    access_order |-> Remove(st.access_order, arg)],
            ret |-> [op |-> op, value |-> None]]
      [] op = "cleanup_expired" ->
           LET expired_ids == {sid \in DOMAIN st.sessions : _is_expired(st.sessions[sid], time)}
           IN [st |-> [sessions |-> [x \in DOMAIN st.sessions \ expired_ids |-> st.sessions[x]],
                       access_order |-> SelectSeq(st.access_order, LAMBDA x : x \notin expired_ids)],
               ret |-> [op |-> op, value |-> Cardinality(expired_ids)]]
      [] op = "count" ->
           [st |-> st, ret |-> [op |-> op, value |-> Cardinality(DOMAIN st.sessions)]]

\* one FileSystemSessionStore method, from entry to return; st.sessions are
\* the session files and st.access_order is the index file
FsCall(st, op, arg, time, new_id) ==
    CASE op = "create_or_reuse" ->
           LET f == FsFind(st, st.access_order, _hash_credentials(arg), time)
           IN IF ~IsNone(f.id) /\ Val(f.id) \in DOMAIN f.st.sessions
              THEN [st |-> [sessions |-> [f.st.sessions EXCEPT ![Val(f.id)].last_accessed = time],
                            access_order |-> _update_access_order(Val(f.id), f.st.access_order)],
                    ret |-> [op |-> op, new |-> FALSE, value |-> Val(f.id), evicted |-> {}]]
              ELSE LET st2 == CreateIn(f.st, Len(f.st.access_order), new_id, arg, time,
                                       FsEvictLru(f.st))
                   IN [st |-> st2,
                       ret |-> [op |-> op, new |-> TRUE, value |-> new_id,
                                evicted |-> DOMAIN f.st.sessions \ DOMAIN st2.sessions]]
      [] op = "get" ->
           IF arg \notin DOMAIN st.sessions
           THEN [st |-> st, ret |-> [op |-> op, value |-> None]]
           ELSE IF _is_expired(st.sessions[arg], time)
           THEN [st |-> [sessions |-> Drop(st.sessions, arg),
                         access_order |-> Remove(st.access_order, arg)],
                 ret |-> [op |-> op, value |-> None]]
           ELSE [st |-> [sessions |-> [st.sessions EXCEPT ![arg].last_accessed = time],
                         access_order |-> _update_access_order(arg, st.access_order)],
                 ret |-> [op |-> op, value |-> Some([st.sessions[arg] EXCEPT !.last_accessed = time])]]
      [] op = "delete" ->
           [st |-> [sessions |-> [x \in DOMAIN st.sessions \ {arg} |-> st.sessions[x]],
                    access_order |-> Remove(st.access_order, arg)],
            ret |-> [op |-> op, value |-> None]]
      [] op = "cleanup_expired" ->
           LET listed == {st.access_order[i] : i \in DOMAIN st.access_order}
               gone == {sid \in listed : sid \notin DOMAIN st.sessions
                                            \/ _is_expired(st.sessions[sid], time)}
           IN [st |-> [sessions |-> [x \in DOMAIN st.sessions \ gone |-> st.sessions[x]],
                       access_order |-> SelectSeq(st.access_order, LAMBDA x : x \notin gone)],
               ret |-> [op |-> op, value |-> Cardinality(gone)]]
      [] op = "count" ->
           [st |-> st, ret |-> [op |-> op, value |-> Len(st.access_order)]]

\* the same call is made on both stores at the same clock reading; the random
\* session id is drawn once so that the two results can be compared
TwinCall(op, arg) ==
    /\ op = "create_or_reuse" => twin.next_sid <= MaxSessionIds
    /\ LET m == MemCall(twin.mem, op, arg, twin.now, twin.next_sid)
           f == FsCall(twin.fs, op, arg, twin.now, twin.next_sid)
           created == op = "create_or_reuse" /\ (m.ret.new \/ f.ret.new)
       IN /\ twin' = [mem |-> m.st, fs |-> f.st, now |-> twin.now,
                      next_sid |-> IF created THEN twin.next_sid + 1 ELSE twin.next_sid]
          /\ twin_ret' = [mem |-> m.ret, fs |-> f.ret]
    /\ UNCHANGED outsideTwin

TwinTick ==
    /\ twin.now < MaxTime
    /\ twin' = [twin EXCEPT !.now = @ + 1]
    /\ UNCHANGED twin_ret
    /\ UNCHANGED outsideTwin

NextTwin ==
    \/ \E op \in StoreOps : \E arg \in StoreArgs(op) : TwinCall(op, arg)
    \/ TwinTick

InitTwin ==
    /\ twin = [mem |-> EmptyStore, fs |-> EmptyStore, now |-> 0, next_sid |-> 1]
    /\ twin_ret = [mem |-> [op |-> "none"], fs |-> [op |-> "none"]]

\* ============================ S3DeltaGliderSDK and its BucketStatsCache
StatsTtl == 1
StatsThreads == {"t1", "t2"}
StatsKeys == {"app.zip", "notes.txt"}

\* BucketStatsCache._is_expired
StatsIsExpired(entry, monotonic) ==
    IF IsNone(entry) THEN TRUE ELSE (monotonic - Val(entry).ts) > StatsTtl

\* BucketStatsCache.get: the snapshot, or none when absent or expired
StatsGet(entries, name, monotonic) ==
    IF StatsIsExpired(entries[name], monotonic) THEN None ELSE Some(Val(entries[name]).snapshot)

\* the cache after get: an expired entry is popped
StatsAfterGet(entries, name, monotonic) ==
    IF StatsIsExpired(entries[name], monotonic) THEN [entries EXCEPT ![name] = None] ELSE entries

\* BucketStatsCache.clear in the place of remove
StatsClear(entries, name) == [b \in DOMAIN entries |-> None]

\* BucketStatsCache.remove
StatsRemove(entries, name) == [entries EXCEPT ![name] = None]

\* BucketStatsCache.put
StatsPut(entries, snapshot, monotonic) ==
    [entries EXCEPT ![snapshot.name] = Some([snapshot |-> snapshot, ts |-> monotonic])]

\* the snapshot _refresh_bucket_stats builds from the client's statistics
StatsSnapshot(bucket, keys) == BucketSnapshot(bucket, SeqByRank({LogicalObject(k) : k \in keys}))

BIdle == [pc |-> "idle"]

\* list_buckets(compute_stats=False): the backend lists the bucket names
BcListNames(t) ==
    /\ bthr[t].pc = "idle"
    /\ bthr' = [bthr EXCEPT ![t] = [pc |-> "listing"]]
    /\ UNCHANGED bc
    /\ UNCHANGED outsideStats

\* list_buckets(compute_stats=False): every bucket's cached snapshot or placeholder
BcListBuckets(t) ==
    /\ bthr[t].pc = "listing"
    /\ bthr' = [bthr EXCEPT ![t] =
                  [pc |-> "idle",
                   ret |-> [b \in Buckets |->
                              LET snapshot == StatsGet(bc.entries, b, bc.monotonic)
                              IN IF IsNone(snapshot) THEN _placeholder_snapshot(b)
                                 ELSE Val(snapshot)]]]
    /\ bc' = [bc EXCEPT !.entries = [b \in Buckets |->
                                        StatsAfterGet(bc.entries, b, bc.monotonic)[b]]]
    /\ UNCHANGED outsideStats

\* compute_bucket_stats -> _refresh_bucket_stats: the client computes the statistics
BcStatsFetch(t, bucket) ==
    /\ bthr[t].pc = "idle"
    /\ bthr' = [bthr EXCEPT ![t] = [pc |-> "put", bucket |-> bucket,
                                    snapshot |-> StatsSnapshot(bucket, bc.objects[bucket])]]
    /\ UNCHANGED bc
    /\ UNCHANGED outsideStats

\* _refresh_bucket_stats: the snapshot goes into the cache
BcStatsPut(t) ==
    /\ bthr[t].pc = "put"
    /\ bc' = [bc EXCEPT !.entries = StatsPut(@, bthr[t].snapshot, bc.monotonic),
                        !.mutated = @ \ {bthr[t].bucket}]
    /\ bthr' = [bthr EXCEPT ![t] = BIdle]
    /\ UNCHANGED outsideStats

\* _refresh_bucket_stats, except branch: get_bucket_stats raised
BcStatsFails(t, bucket) ==
    /\ bthr[t].pc = "idle"
    /\ ~IsNone(bc.entries[bucket])
    /\ bc' = [bc EXCEPT !.entries = StatsRemove(@, bucket)]
    /\ UNCHANGED bthr
    /\ UNCHANGED outsideStats

\* upload, delete_object, delete_objects: the client call succeeds
BcMutate(t, kind, bucket, keys) ==
    /\ bthr[t].pc = "idle"
    /\ bc.mutations < MaxMutations
    /\ kind = "upload" => Cardinality(keys) = 1
    /\ kind = "delete_object" => Cardinality(keys) = 1
    /\ bc' = [bc EXCEPT !.objects[bucket] = IF kind = "upload" THEN @ \cup keys ELSE @ \ keys,
                        !.mutations = @ + 1]
    /\ bthr' = [bthr EXCEPT ![t] = [pc |-> "invalidate", bucket |-> bucket]]
    /\ UNCHANGED outsideStats

\* upload, delete_object, delete_objects: invalidate_bucket_cache, return
BcInvalidate(t) ==
    /\ bthr[t].pc = "invalidate"
    /\ bc' = [bc EXCEPT !.entries = StatsRemove(@, bthr[t].bucket),
                        !.mutated = @ \cup {bthr[t].bucket}]
    /\ bthr' = [bthr EXCEPT ![t] = BIdle]
    /\ UNCHANGED outsideStats

BcTick ==
    /\ bc.monotonic < MaxTime
    /\ bc' = [bc EXCEPT !.monotonic = @ + 1]
    /\ UNCHANGED bthr
    /\ UNCHANGED outsideStats

NextStats ==
    \/ \E t \in StatsThreads : BcListNames(t)
    \/ \E t \in StatsThreads : BcListBuckets(t)
    \/ \E t \in StatsThreads : \E b \in Buckets : BcStatsFetch(t, b)
    \/ \E t \in StatsThreads : BcStatsPut(t)
    \/ \E t \in StatsThreads : \E b \in Buckets : BcStatsFails(t, b)
    \/ \E t \in StatsThreads : \E kind \in {"upload", "delete_object", "delete_objects"} :
          \E b \in Buckets : \E keys \in SUBSET StatsKeys : BcMutate(t, kind, b, keys)
    \/ \E t \in StatsThreads : BcInvalidate(t)
    \/ BcTick

InitStats ==
    /\ bc = [entries |-> [b \in Buckets |-> None], monotonic |-> 0,
             objects |-> [b \in Buckets |-> {"app.zip"}], mutated |-> {}, mutations |-> 0]
    /\ bthr = [t \in StatsThreads |-> BIdle]

\* ================================================== one purge sweep
\* the classes with a _run_purge, and the SDKs a sweep can be built with
PurgeRunners == {"PurgeScheduler", "PurgeJobRunner"}
PurgeSdks == {"S3DeltaGliderSDK", "InMemoryDeltaGliderSDK"}

\* the bucket names a listing can return, in backend order
BucketListings == {<<>>, <<"b1">>, <<"b2">>, <<"b1", "b2">>, <<"b2", "b1">>, <<"b1", "b2", "b3">>}

\* attributes the code probes with hasattr: list_buckets of either SDK returns
\* a list of BucketSnapshot; only the S3 adapter has a _client, and that
\* client has purge_temp_files
HasAttr(type, name) ==
    CASE type = "list" -> FALSE
      [] type = "BucketSnapshot" -> name = "name"
      [] type = "S3DeltaGliderSDK" -> name \in {"_client", "list_buckets"}
      [] type = "InMemoryDeltaGliderSDK" -> name = "list_buckets"
      [] type = "DeltaGliderClient" -> name \in {"purge_temp_files", "list_buckets"}
      [] OTHER -> FALSE

\* the buckets _run_purge loops over
BucketsToPurge(runner, sdk, listing) ==
    IF runner = "PurgeScheduler"
    THEN \* buckets_response.buckets if hasattr(buckets_response, "buckets") else []
         IF HasAttr("list", "buckets") THEN listing ELSE <<>>
    ELSE \* [b["Name"] for b in self._sdk._client.list_buckets().get("Buckets", [])]
         listing

NoSweep == [pc |-> "idle", runner |-> "none", sdk |-> "none", todo |-> <<>>, deleted |-> 0,
            listed |-> <<>>, attempted |-> <<>>, failed |-> {}, raised |-> FALSE]

\* _run_purge up to the loop: the bucket listing succeeds
SweepList(runner, sdk, listing) ==
    /\ sweep.pc \in {"idle", "done"}
    \* PurgeJobRunner lists through self._sdk._client
    /\ runner = "PurgeJobRunner" => HasAttr(sdk, "_client")
    /\ sweep' = [NoSweep EXCEPT !.pc = "loop", !.runner = runner, !.sdk = sdk,
                                !.listed = listing,
                                !.todo = BucketsToPurge(runner, sdk, listing)]
    /\ UNCHANGED outsideSweep

\* _run_purge up to the loop: the bucket listing raises (an SDK error, or the
\* AttributeError of a missing _client), which is caught and logged
SweepListFails(runner, sdk) ==
    /\ sweep.pc \in {"idle", "done"}
    /\ sweep' = [NoSweep EXCEPT !.pc = "done", !.runner = runner, !.sdk = sdk]
    /\ UNCHANGED outsideSweep

\* one pass of the loop; the purge of the bucket returns a count or raises
SweepPurgeBucket(deleted_count, raises) ==
    /\ sweep.pc = "loop"
    /\ sweep.todo # <<>>
    /\ LET bucket == Head(sweep.todo)
           supported == sweep.runner = "PurgeJobRunner"
                           \/ (HasAttr(sweep.sdk, "_client")
                                   /\ HasAttr("DeltaGliderClient", "purge_temp_files"))
       IN sweep' = [sweep EXCEPT
                      !.todo = Tail(@),
                      !.attempted = IF supported THEN Append(@, bucket) ELSE @,
                      !.failed = IF supported /\ raises THEN @ \cup {bucket} ELSE @,
                      !.deleted = IF supported /\ ~raises THEN @ + deleted_count ELSE @]
    /\ UNCHANGED outsideSweep

\* the loop is over: the summary is logged and _run_purge returns
SweepDone ==
    /\ sweep.pc = "loop"
    /\ sweep.todo = <<>>
    /\ sweep' = [sweep EXCEPT !.pc = "done"]
    /\ UNCHANGED outsideSweep

NextSweep ==
    \/ \E runner \in PurgeRunners : \E sdk \in PurgeSdks : \E listing \in BucketListings :
          SweepList(runner, sdk, listing)
    \/ \E runner \in PurgeRunners : \E sdk \in PurgeSdks : SweepListFails(runner, sdk)
    \/ \E deleted_count \in 0..2 : \E raises \in BOOLEAN : SweepPurgeBucket(deleted_count, raises)
    \/ SweepDone

InitSweep == sweep = NoSweep

\* ============================== FileSystemSessionStore on a faulty directory
\* pickle.dump(access_order, f): the stream of the list, ended by the STOP opcode
PickleDump(list) == [items |-> list, stop |-> TRUE]
\* open(self._index_file, "wb"): the file exists and is empty
Truncated == [items |-> <<>>, stop |-> FALSE]

\* _read_index: no file gives [], and so does any exception of pickle.load
_read_index(index) ==
    IF IsNone(index) THEN <<>>
    ELSE IF ~Val(index).stop THEN <<>>
    ELSE Val(index).items

Listed_in(order) == {order[i] : i \in DOMAIN order}

\* the session files _load_session can unpickle
ReadableSessions(files) ==
    [sid \in {x \in DOMAIN files : files[x].readable} |-> files[sid].data]

\* the ids a call passes to _load_session; found is the id the scan of
\* _find_by_credentials_hash_unlocked returned on, if any
LoadedIds(op, arg, order, found) ==
    CASE op = "get" -> {arg}
      [] op = "cleanup_expired" -> Listed_in(order)
      [] op = "create_or_reuse" ->
           IF IsNone(found) THEN Listed_in(order)
           ELSE {order[j] : j \in {i \in DOMAIN order :
                                      \A k \in 1..(i - 1) : order[k] # Val(found)}}
      [] OTHER -> {}

\* whether a call reaches _write_index
WritesIndex(op, arg, st, time) ==
    CASE op \in {"create_or_reuse", "cleanup_expired"} -> TRUE
      [] op = "delete" -> arg \in Listed_in(st.access_order)
      [] op = "get" ->
           /\ arg \in DOMAIN st.sessions
           /\ _is_expired(st.sessions[arg], time) => arg \in Listed_in(st.access_order)
      [] OTHER -> FALSE

\* the session files after a call: those the call saved or kept, and the
\* unreadable ones it neither loaded (_load_session unlinks them) nor deleted
FilesAfter(files, saved, unlinked) ==
    [sid \in DOMAIN saved \cup {x \in DOMAIN files : ~files[x].readable /\ x \notin unlinked} |->
        IF sid \in DOMAIN saved THEN [data |-> saved[sid], readable |-> TRUE] ELSE files[sid]]

\* a store call up to the open(.index, "wb") of _write_index, or to its
\* return when it does not write the index
DiskCall(p, op, arg) ==
    /\ fsproc[p].pc = "idle"
    /\ CanAcquire(fsenv.lock)
    /\ op = "create_or_reuse" => fsenv.next_sid <= MaxSessionIds
    /\ LET order == _read_index(disk.index)
           st == [sessions |-> ReadableSessions(disk.files), access_order |-> order]
           r == FsCall(st, op, arg, fsenv.now, fsenv.next_sid)
           found == IF op = "create_or_reuse" /\ ~r.ret.new THEN Some(r.ret.value) ELSE None
           unlinked == LoadedIds(op, arg, order, found)
                           \cup (IF op = "delete" THEN {arg} ELSE {})
           writes == WritesIndex(op, arg, st, fsenv.now)
       IN /\ disk' = [files |-> FilesAfter(disk.files, r.st.sessions, unlinked),
                      index |-> IF writes THEN Some(Truncated) ELSE disk.index]
          /\ fsproc' = [fsproc EXCEPT ![p] =
                          IF writes
                          THEN [pc |-> "writing", call |-> <<op, arg>>,
                                pending |-> r.st.access_order,
                                out |-> r.ret, ret |-> [op |-> "none"]]
                          ELSE [pc |-> "idle", call |-> <<op, arg>>, pending |-> <<>>,
                                out |-> [op |-> "none"], ret |-> r.ret]]
          /\ fsenv' = [fsenv EXCEPT !.lock = IF writes THEN p ELSE "free",
                                    !.next_sid = IF op = "create_or_reuse" /\ r.ret.new
                                                 THEN @ + 1 ELSE @,
                                    !.written = IF writes THEN r.st.access_order ELSE @]
    /\ UNCHANGED outsideDisk

\* pickle.dump and close in _write_index, _release_file_lock, return
DiskWriteDone(p) ==
    /\ fsproc[p].pc = "writing"
    /\ disk' = [disk EXCEPT !.index = Some(PickleDump(fsproc[p].pending))]
    /\ fsproc' = [fsproc EXCEPT ![p] = [pc |-> "idle", call |-> fsproc[p].call, pending |-> <<>>,
                                        out |-> [op |-> "none"], ret |-> fsproc[p].out]]
    /\ fsenv' = [fsenv EXCEPT !.lock = "free", !.committed = fsproc[p].pending]
    /\ UNCHANGED outsideDisk

\* the worker process is killed inside _write_index; the OS drops its flock
\* and the worker is started again
DiskCrash(p) ==
    /\ fsproc[p].pc = "writing"
    /\ fsenv.crashes < MaxCrashes
    /\ fsproc' = [fsproc EXCEPT ![p] = [pc |-> "idle", call |-> fsproc[p].call, pending |-> <<>>,
                                        out |-> [op |-> "none"], ret |-> [op |-> "killed"]]]
    /\ fsenv' = [fsenv EXCEPT !.lock = "free", !.crashes = @ + 1]
    /\ UNCHANGED disk
    /\ UNCHANGED outsideDisk

\* a session file becomes unreadable for pickle.load
DiskCorrupt(sid) ==
    /\ fsenv.lock = "free"
    /\ fsenv.corruptions < MaxCorruptions
    /\ sid \in DOMAIN disk.files /\ disk.files[sid].readable
    /\ disk' = [disk EXCEPT !.files[sid].readable = FALSE]
    /\ fsenv' = [fsenv EXCEPT !.corruptions = @ + 1, !.corrupted = @ \cup {[id |-> sid, credentials |-> disk.files[sid].data.credentials]}]
    /\ UNCHANGED fsproc
    /\ UNCHANGED outsideDisk

DiskTick ==
    /\ fsenv.now < MaxTime
    /\ fsenv' = [fsenv EXCEPT !.now = @ + 1]
    /\ UNCHANGED <<disk, fsproc>>
    /\ UNCHANGED outsideDisk

\* arguments of the calls: two users, every session id
DiskArgs(op) == IF op = "create_or_reuse" THEN {CredA, CredB} ELSE StoreArgs(op)

\* worker processes that can be killed while they write the index
NextCrash ==
    \/ \E p \in Workers : \E op \in StoreOps : \E arg \in DiskArgs(op) : DiskCall(p, op, arg)
    \/ \E p \in Workers : DiskWriteDone(p)
    \/ \E p \in Workers : DiskCrash(p)

\* one worker process on a directory whose session files can go bad
NextCorrupt ==
    \/ \E op \in StoreOps : \E arg \in DiskArgs(op) : DiskCall("w1", op, arg)
    \/ DiskWriteDone("w1")
    \/ \E sid \in SessionIds : DiskCorrupt(sid)
    \/ DiskTick

InitDisk ==
    /\ disk = [files |-> EmptyMap, index |-> None]
    /\ fsproc = [p \in Workers |-> [pc |-> "idle", call |-> <<"none", 0>>, pending |-> <<>>,
                                    out |-> [op |-> "none"], ret |-> [op |-> "none"]]]
    /\ fsenv = [lock |-> "free", now |-> 0, next_sid |-> 1, crashes |-> 0, corruptions |-> 0,
                corrupted |-> {}, committed |-> <<>>, written |-> <<>>]


\* ------------------------------------------------------------ paging of list_objects
\* LISTING_MAX_OBJECTS, scaled to the longest listing of the model
LISTING_MAX_OBJECTS == MaxListLen
PageLimits == 1..MaxListLen

_CURSOR_PREFIX == "offset:"

\* base64.urlsafe_b64encode(text.encode()).decode("ascii"): an opaque token
urlsafe_b64encode(text) == <<"b64", text>>
\* base64.b64decode(raw, altchars="-_", validate=True).decode(): "error" for what is no token
b64decode(raw) == IF Len(raw) = 2 /\ raw[1] = "b64" THEN Some(raw[2]) ELSE None

IsDigit(c) == \E d \in 0..9 : Digit(d) = c
DigitValue(c) == CHOOSE d \in 0..9 : Digit(d) = c
\* int(text) for a string of decimal digits; None where int() raises ValueError
RECURSIVE ParseInt(_)
ParseInt(text) ==
    IF Len(text) = 0 THEN None
    ELSE LET last == SubSeq(text, Len(text), Len(text))
             rest == SubSeq(text, 1, Len(text) - 1)
         IN IF ~IsDigit(last) THEN None
            ELSE IF Len(rest) = 0 THEN Some(DigitValue(last))
            ELSE IF IsNone(ParseInt(rest)) THEN None
            ELSE Some(Val(ParseInt(rest)) * 10 + DigitValue(last))

encode_cursor(offset) == urlsafe_b64encode(_CURSOR_PREFIX \o Decimal(offset))

\* decode_cursor(raw): [ok, value]; no cursor decodes to None, a bad one raises invalid_cursor
decode_cursor(raw) ==
    IF IsNone(raw) THEN [ok |-> TRUE, value |-> None]
    ELSE LET decoded == b64decode(Val(raw))
         IN IF IsNone(decoded) THEN [ok |-> FALSE, value |-> None]
            ELSE IF Len(Val(decoded)) < Len(_CURSOR_PREFIX)
                     \/ SubSeq(Val(decoded), 1, Len(_CURSOR_PREFIX)) # _CURSOR_PREFIX
                 THEN [ok |-> FALSE, value |-> None]
            ELSE LET n == ParseInt(SubSeq(Val(decoded), Len(_CURSOR_PREFIX) + 1, Len(Val(decoded))))
                 IN [ok |-> ~IsNone(n), value |-> n]

\* decode_cursor(cursor) or 0
CursorOffset(cursor) == IF IsNone(decode_cursor(cursor).value) THEN 0 ELSE Val(decode_cursor(cursor).value)

\* sorted_objects[offset : offset + limit] for offset >= 0
PageSlice(sorted_objects, offset, limit) ==
    IF offset >= Len(sorted_objects) THEN <<>>
    ELSE SubSeq(sorted_objects, offset + 1, Min(offset + limit, Len(sorted_objects)))

\* a next cursor that is also handed out on the page that reaches the end
NextCursorInclusive(offset, page_len, total) ==
    IF offset + page_len <= total THEN Some(encode_cursor(offset + page_len)) ELSE None
\* encode_cursor(offset + len(page)) if offset + len(page) < len(sorted_objects) else None
NextCursor(offset, page_len, total) ==
    IF offset + page_len < total THEN Some(encode_cursor(offset + page_len)) ELSE None

ObjectItem(obj) == [key |-> obj.key, original_bytes |-> obj.original_bytes,
                    stored_bytes |-> obj.stored_bytes, compressed |-> obj.compressed,
                    modified |-> obj.modified]
ObjectItems(objs) == [i \in 1..Len(objs) |-> ObjectItem(objs[i])]

\* the tail of list_objects: the page, the next cursor and the limited flag;
\* base_objects is None when sorted_objects came from a stored variant
PageResponse(sorted_objects, base_objects, common_prefixes, limit, cursor) ==
    LET offset == CursorOffset(cursor)
        page == PageSlice(sorted_objects, offset, limit)
        fetched_count == IF IsNone(base_objects) THEN Len(sorted_objects) ELSE Len(Val(base_objects))
    IN [objects |-> ObjectItems(page),
        common_prefixes |-> common_prefixes,
        cursor |-> NextCursor(offset, Len(page), Len(sorted_objects)),
        limited |-> fetched_count >= LISTING_MAX_OBJECTS]

PageCommonPrefixes == {<<>>, <<"logs/">>}

NoWalk == [phase |-> "idle", base |-> <<>>, common_prefixes |-> <<>>, sort_order |-> "name_asc",
           compressed |-> None, search |-> None, limit |-> 1, variant |-> None,
           cursor |-> None, sorted |-> <<>>, visited |-> <<>>, pages |-> 0,
           resp |-> None, from_base |-> None, src |-> "none"]

\* a client starts to page through a listing whose base is in the listing cache
PageStart(base, common_prefixes, sort_order, compressed, search, limit) ==
    /\ pg.phase = "idle"
    /\ pg' = [NoWalk EXCEPT !.phase = "walk", !.base = base, !.common_prefixes = common_prefixes,
                            !.sort_order = sort_order, !.compressed = compressed,
                            !.search = search, !.limit = limit,
                            !.sorted = _filter_and_sort(base, sort_order, compressed,
                                                        SearchKey(search))]
    /\ UNCHANGED outsidePaging

\* list_objects for the next page of the walk: the first request finds the base
\* and stores the variant, the following ones are served from the stored variant
PageRequest ==
    /\ pg.phase = "walk"
    /\ decode_cursor(pg.cursor).ok
    /\ LET hit == ~IsNone(pg.variant)
           derived == _filter_and_sort(pg.base, pg.sort_order, pg.compressed, SearchKey(pg.search))
           sorted_objects == IF hit THEN Val(pg.variant) ELSE derived
           base_objects == IF hit THEN None ELSE Some(pg.base)
           resp == PageResponse(sorted_objects, base_objects, pg.common_prefixes, pg.limit, pg.cursor)
       IN pg' = [pg EXCEPT !.variant = Some(sorted_objects),
                           !.resp = Some(resp),
                           !.from_base = Some(PageResponse(derived, Some(pg.base),
                                                           pg.common_prefixes, pg.limit, pg.cursor)),
                           !.src = IF hit THEN "variant" ELSE "base",
                           !.visited = @ \o resp.objects,
                           !.pages = @ + 1,
                           !.cursor = resp.cursor,
                           !.phase = IF IsNone(resp.cursor) THEN "end" ELSE "walk"]
    /\ UNCHANGED outsidePaging

\* the client has the whole result and leaves
PageLeave ==
    /\ pg.phase = "end"
    /\ pg' = NoWalk
    /\ UNCHANGED outsidePaging

NextPaging ==
    \/ \E base \in BaseListings, cp \in PageCommonPrefixes, so \in AllSortOrders,
          cf \in AllCompressedFilters, se \in AllSearchTerms, limit \in PageLimits :
          PageStart(base, cp, so, cf, se, limit)
    \/ PageRequest
    \/ PageLeave

InitPaging == pg = NoWalk

\* ------------------------------------------------------------ lock discipline
\* every operation as the sequence of its lock acquisitions, lock releases and
\* StorageSDK backend calls, in program order
LockNames == {"list_cache", "stats_cache", "jobs", "session_mutex", "session_flock", "session_memory"}
LockThreads == {"t1", "t2"}
LockOps == {"list_objects", "list_objects_hit", "list_objects_bypass", "delete_object",
            "bulk_delete", "upload", "list_buckets", "compute_bucket_stats",
            "compute_savings", "_run_job", "pending", "login_fs", "login_memory", "session_get"}

Acq(l) == [kind |-> "acquire", arg |-> l]
Rel(l) == [kind |-> "release", arg |-> l]
SdkCall(c) == [kind |-> "sdk", arg |-> c]
Locked(l) == <<Acq(l), Rel(l)>>

\* list_objects that fetches the listing inside the cache lock
ProgramOfFetchUnderLock(op) ==
    CASE op = "list_objects" ->
            <<Acq("list_cache"), SdkCall("list_objects"), Rel("list_cache")>>
      [] OTHER -> Locked("list_cache")

ProgramOf(op) ==
    CASE op = "list_objects" ->          \* get_variant, sdk.list_objects, prime_listing, store_variant
            Locked("list_cache") \o <<SdkCall("list_objects")>> \o Locked("list_cache")
                \o Locked("list_cache")
      [] op = "list_objects_hit" -> Locked("list_cache")
      [] op = "list_objects_bypass" ->   \* invalidate_bucket, get nothing, fetch
            Locked("list_cache") \o <<SdkCall("list_objects")>>
      [] op = "delete_object" ->         \* sdk.delete_object, then the invalidations
            <<SdkCall("delete_object")>> \o Locked("stats_cache") \o Locked("list_cache")
                \o Locked("stats_cache")
      [] op = "bulk_delete" ->
            <<SdkCall("delete_objects")>> \o Locked("stats_cache") \o Locked("list_cache")
                \o Locked("stats_cache")
      [] op = "upload" -> <<SdkCall("upload")>> \o Locked("stats_cache")
      [] op = "list_buckets" -> <<SdkCall("list_buckets")>> \o Locked("stats_cache")
      [] op = "compute_bucket_stats" ->
            <<SdkCall("list_buckets"), SdkCall("get_bucket_stats")>> \o Locked("stats_cache")
      [] op = "compute_savings" ->       \* bucket_exists, invalidate, enqueue with a done callback
            <<SdkCall("list_buckets")>> \o Locked("stats_cache")
                \o <<Acq("jobs")>> \o Locked("jobs") \o <<Rel("jobs")>>
      [] op = "_run_job" ->              \* listing, update_savings, _finalize
            <<SdkCall("list_objects")>> \o Locked("stats_cache") \o Locked("jobs")
      [] op = "pending" -> Locked("jobs")
      [] op = "login_fs" ->              \* validate_credentials, create_or_reuse
            <<SdkCall("list_buckets"), Acq("session_mutex"), Acq("session_flock"),
              Rel("session_flock"), Rel("session_mutex")>>
      [] op = "login_memory" -> <<SdkCall("list_buckets")>> \o Locked("session_memory")
      [] op = "session_get" ->
            <<Acq("session_mutex"), Acq("session_flock"), Rel("session_flock"),
              Rel("session_mutex")>>

NoProgram == [op |-> "none", ip |-> 1]
NextInstr(t) == ProgramOf(lthr[t].op)[lthr[t].ip]
AtInstr(t, kind) ==
    /\ lthr[t].op # "none"
    /\ lthr[t].ip <= Len(ProgramOf(lthr[t].op))
    /\ NextInstr(t).kind = kind
HeldBy(t) == {l \in LockNames : lheld[l].holder = t}
Advance(t) == lthr' = [lthr EXCEPT ![t].ip = @ + 1]

\* a thread enters an operation
LockCall(t, op) ==
    /\ lthr[t].op = "none"
    /\ lthr' = [lthr EXCEPT ![t] = [op |-> op, ip |-> 1]]
    /\ UNCHANGED lheld
    /\ UNCHANGED outsideLocks

\* RLock / flock acquire: blocks while another thread holds the lock
LockAcquire(t) ==
    /\ AtInstr(t, "acquire")
    /\ LET l == NextInstr(t).arg
       IN /\ lheld[l].holder \in {"none", t}
          /\ lheld' = [lheld EXCEPT ![l] = [holder |-> t, depth |-> @.depth + 1]]
    /\ Advance(t)
    /\ UNCHANGED outsideLocks

LockRelease(t) ==
    /\ AtInstr(t, "release")
    /\ LET l == NextInstr(t).arg
       IN lheld' = [lheld EXCEPT ![l] = IF @.depth = 1 THEN [holder |-> "none", depth |-> 0]
                                        ELSE [holder |-> @.holder, depth |-> @.depth - 1]]
    /\ Advance(t)
    /\ UNCHANGED outsideLocks

\* the backend call of the StorageSDK
LockSdkCall(t) ==
    /\ AtInstr(t, "sdk")
    /\ Advance(t)
    /\ UNCHANGED lheld
    /\ UNCHANGED outsideLocks

LockReturn(t) ==
    /\ lthr[t].op # "none"
    /\ lthr[t].ip > Len(ProgramOf(lthr[t].op))
    /\ lthr' = [lthr EXCEPT ![t] = NoProgram]
    /\ UNCHANGED lheld
    /\ UNCHANGED outsideLocks

NextLocks ==
    \/ \E t \in LockThreads, op \in LockOps : LockCall(t, op)
    \/ \E t \in LockThreads : LockAcquire(t)
    \/ \E t \in LockThreads : LockRelease(t)
    \/ \E t \in LockThreads : LockSdkCall(t)
    \/ \E t \in LockThreads : LockReturn(t)

InitLocks ==
    /\ lheld = [l \in LockNames |-> [holder |-> "none", depth |-> 0]]
    /\ lthr = [t \in LockThreads |-> NoProgram]

\* ------------------------------------------------------------ the purge interval
\* wall-clock time in minutes since start() returned
MaxClockMinutes == 125
IntervalHours == {1, 2}
HoursInMinutes(h) == h * 60

\* add_job(trigger="interval", minutes=self._interval_hours): the period of the
\* interval trigger in minutes
IntervalTriggerMinutes(interval_hours) == interval_hours

NoTimer == [running |-> FALSE, interval_hours |-> 1, now |-> 0, period |-> 1,
            next_fire |-> 0, startup |-> FALSE, runs |-> {}]

\* start() returns true: the interval job is added, the scheduler starts and
\* the startup job is added
TimerStart(h) ==
    /\ ~tmr.running
    /\ tmr' = [NoTimer EXCEPT !.running = TRUE, !.interval_hours = h,
                              !.period = IntervalTriggerMinutes(h),
                              !.next_fire = IntervalTriggerMinutes(h),
                              !.startup = TRUE]
    /\ UNCHANGED outsideTimer

\* the job without a trigger runs at once
TimerStartupRun ==
    /\ tmr.running /\ tmr.startup
    /\ tmr' = [tmr EXCEPT !.startup = FALSE, !.runs = @ \cup {tmr.now}]
    /\ UNCHANGED outsideTimer

\* the interval trigger fires when its period has passed
TimerFire ==
    /\ tmr.running /\ ~tmr.startup
    /\ tmr.now = tmr.next_fire
    /\ tmr' = [tmr EXCEPT !.runs = @ \cup {tmr.now}, !.next_fire = @ + tmr.period]
    /\ UNCHANGED outsideTimer

\* a minute passes; a due job runs before the next minute
TimerTick ==
    /\ tmr.running /\ ~tmr.startup
    /\ tmr.now < tmr.next_fire
    /\ tmr.now < MaxClockMinutes
    /\ tmr' = [tmr EXCEPT !.now = @ + 1]
    /\ UNCHANGED outsideTimer

\* stop(): the scheduler shuts down and the lease is released
TimerStop ==
    /\ tmr.running
    /\ tmr' = NoTimer
    /\ UNCHANGED outsideTimer

NextTimer ==
    \/ \E h \in IntervalHours : TimerStart(h)
    \/ TimerStartupRun
    \/ TimerFire
    \/ TimerTick
    \/ TimerStop

InitTimer == tmr = NoTimer

\* ------------------------------------------------------------ bulk_delete_objects
\* what sdk.delete_objects does: returns, or raises one of these
SdkOutcomes == {"ok", "NotFoundError", "APIError", "Exception"}
BulkKeyLists ==
    {q \in UNION {[1..n -> ObjKeys] : n \in 0..MaxListLen} :
        \A i, j \in DOMAIN q : i # j => q[i] # q[j]}

ErrorEntries(keys, message) == [i \in 1..Len(keys) |-> [key |-> keys[i], error |-> message]]

\* evaluating the f-string of the logger.error call: the local name key is
\* bound only by the for loops of the handlers
LogLineRaises(key_local) == IsNone(key_local)

\* ObjectMutationService.bulk_delete_objects, given what sdk.delete_objects did
BulkDeleteResult(bucket, keys, outcome) ==
    LET key_local == None     \* no for loop has run when a handler is entered
    IN CASE outcome = "ok" ->
              [raised |-> None, deleted |-> keys, errors |-> <<>>, invalidated |-> {bucket}]
         [] outcome = "NotFoundError" ->
              [raised |-> None, deleted |-> <<>>,
               errors |-> ErrorEntries(keys, "Object not found"), invalidated |-> {}]
         [] outcome = "APIError" ->
              [raised |-> None, deleted |-> <<>>,
               errors |-> ErrorEntries(keys, "str(exc)"), invalidated |-> {}]
         [] outcome = "Exception" ->
              IF LogLineRaises(key_local)
              THEN [raised |-> Some("UnboundLocalError"), deleted |-> <<>>, errors |-> <<>>,
                    invalidated |-> {}]
              ELSE [raised |-> None, deleted |-> <<>>,
                    errors |-> ErrorEntries(keys, "_summarize_exception(exc)"),
                    invalidated |-> {}]

NoBulk == [pc |-> "idle", bucket |-> "", keys |-> <<>>, outcome |-> "none"]

\* the endpoint calls bulk_delete_objects, which calls sdk.delete_objects
BulkDeleteCall(bucket, keys) ==
    /\ bulk.pc = "idle"
    /\ bulk' = [pc |-> "sdk", bucket |-> bucket, keys |-> keys, outcome |-> "none"]
    /\ UNCHANGED outsideBulk

\* sdk.delete_objects returns or raises, and bulk_delete_objects runs to its end
BulkDeleteFinish(outcome) ==
    /\ bulk.pc = "sdk"
    /\ bulk' = [pc |-> "done", bucket |-> bulk.bucket, keys |-> bulk.keys, outcome |-> outcome,
                result |-> BulkDeleteResult(bulk.bucket, bulk.keys, outcome)]
    /\ UNCHANGED outsideBulk

\* the endpoint has answered
BulkDeleteAnswered ==
    /\ bulk.pc = "done"
    /\ bulk' = NoBulk
    /\ UNCHANGED outsideBulk

NextBulk ==
    \/ \E bucket \in Buckets, keys \in BulkKeyLists : BulkDeleteCall(bucket, keys)
    \/ \E outcome \in SdkOutcomes : BulkDeleteFinish(outcome)
    \/ BulkDeleteAnswered

InitBulk == bulk = NoBulk

\* ------------------------------------------------------------ the session store's locks
\* threads of two processes that share one session directory
StoreThreads == {"p1.a", "p1.b", "p2.a"}
StoreProcessOf(t) == IF t = "p2.a" THEN "p2" ELSE "p1"
StoreProcesses == {"p1", "p2"}
LockedStoreOps == {"create_or_reuse", "get", "delete", "cleanup_expired", "count",
                   "find_by_credentials_hash"}

NoStoreCall == [pc |-> "idle", op |-> "none", raised |-> FALSE]

\* a release that leaves the flock with its holder
_release_file_lock_skipped(holder, t) == holder
\* _release_file_lock: flock(LOCK_UN) and close
_release_file_lock(holder, t) == IF holder = t THEN "none" ELSE holder

\* a thread calls an operation of the store
SlCall(t, op) ==
    /\ sl_thr[t].pc = "idle"
    /\ sl_thr' = [sl_thr EXCEPT ![t] = [pc |-> "enter", op |-> op, raised |-> FALSE]]
    /\ UNCHANGED <<sl_mutex, sl_flock>>
    /\ UNCHANGED outsideStoreLocks

\* with self._local_lock: blocks while another thread of the process is inside
SlMutexAcquire(t) ==
    /\ sl_thr[t].pc = "enter"
    /\ sl_mutex[StoreProcessOf(t)] = "none"
    /\ sl_mutex' = [sl_mutex EXCEPT ![StoreProcessOf(t)] = t]
    /\ sl_thr' = [sl_thr EXCEPT ![t].pc = "mutex"]
    /\ UNCHANGED sl_flock
    /\ UNCHANGED outsideStoreLocks

\* _acquire_file_lock: flock(LOCK_EX) blocks while another open file holds the lock
SlFileLockAcquire(t) ==
    /\ sl_thr[t].pc = "mutex"
    /\ sl_flock = "none"
    /\ sl_flock' = t
    /\ sl_thr' = [sl_thr EXCEPT ![t].pc = "body"]
    /\ UNCHANGED sl_mutex
    /\ UNCHANGED outsideStoreLocks

\* _acquire_file_lock raises (touch or open fails): the try block is not entered
SlFileLockAcquireRaises(t) ==
    /\ sl_thr[t].pc = "mutex"
    /\ sl_thr' = [sl_thr EXCEPT ![t].pc = "exit_with", ![t].raised = TRUE]
    /\ UNCHANGED <<sl_mutex, sl_flock>>
    /\ UNCHANGED outsideStoreLocks

\* the body of the try block reaches its return, or raises (pickle or file error)
SlBody(t, raises) ==
    /\ sl_thr[t].pc = "body"
    /\ sl_thr' = [sl_thr EXCEPT ![t].pc = "finally", ![t].raised = raises]
    /\ UNCHANGED <<sl_mutex, sl_flock>>
    /\ UNCHANGED outsideStoreLocks

\* finally: self._release_file_lock(lock_fd)
SlFileLockRelease(t) ==
    /\ sl_thr[t].pc = "finally"
    /\ sl_flock' = _release_file_lock(sl_flock, t)
    /\ sl_thr' = [sl_thr EXCEPT ![t].pc = "exit_with"]
    /\ UNCHANGED sl_mutex
    /\ UNCHANGED outsideStoreLocks

\* the with block is left: the mutex is released and the call returns or raises
SlMutexRelease(t) ==
    /\ sl_thr[t].pc = "exit_with"
    /\ sl_mutex' = [sl_mutex EXCEPT ![StoreProcessOf(t)] = "none"]
    /\ sl_thr' = [sl_thr EXCEPT ![t] = NoStoreCall]
    /\ UNCHANGED sl_flock
    /\ UNCHANGED outsideStoreLocks

NextStoreLocks ==
    \/ \E t \in StoreThreads, op \in LockedStoreOps : SlCall(t, op)
    \/ \E t \in StoreThreads : SlMutexAcquire(t)
    \/ \E t \in StoreThreads : SlFileLockAcquire(t)
    \/ \E t \in StoreThreads : SlFileLockAcquireRaises(t)
    \/ \E t \in StoreThreads, raises \in BOOLEAN : SlBody(t, raises)
    \/ \E t \in StoreThreads : SlFileLockRelease(t)
    \/ \E t \in StoreThreads : SlMutexRelease(t)

InitStoreLocks ==
    /\ sl_thr = [t \in StoreThreads |-> NoStoreCall]
    /\ sl_mutex = [p \in StoreProcesses |-> "none"]
    /\ sl_flock = "none"

\* a thread that is running is scheduled, and a blocked acquire is not passed
\* over for ever once the lock keeps being released
StoreLocksFairness ==
    \A t \in StoreThreads :
        /\ SF_vars(SlMutexAcquire(t))
        /\ SF_vars(SlFileLockAcquire(t))
        /\ WF_vars(\E raises \in BOOLEAN : SlBody(t, raises))
        /\ WF_vars(SlFileLockRelease(t))
        /\ WF_vars(SlMutexRelease(t))

\* ========================================================= specifications
Init ==
    InitCache /\ InitSession /\ InitJobs /\ InitPurge /\ InitSort /\ InitTwin /\ InitDisk
    /\ InitSweep /\ InitStats /\ InitPaging /\ InitLocks /\ InitTimer
    /\ InitBulk /\ InitStoreLocks

NextCache ==
    \/ ListingSteps({CredA}, {"b1"}, {""}, {"name_asc"}, BOOLEAN, BOOLEAN)
    \/ MutationSteps({"b1"})
NextIso == ListingSteps(Credentials, {"b1"}, {""}, {"name_asc"}, {TRUE}, BOOLEAN)
\* listings over several credentials, buckets and prefixes, with bypass reads
\* as the invalidations
InvalTargets == {<<CredA, "b1", "">>, <<CredA, "b1", "logs/">>, <<CredB, "b1", "">>, <<CredA, "b2", "">>}
NextInval ==
    \/ \E t \in Threads, x \in InvalTargets, bp \in BOOLEAN :
          ListStart(t, x[1], x[2], x[3], "name_asc", None, None, TRUE, bp)
    \/ \E t \in Threads : ListGetVariant(t)
    \/ \E t \in Threads : ListFetch(t)
    \/ \E t \in Threads : ListFetchFails(t)
    \/ \E t \in Threads : ListPrime(t)
    \/ \E t \in Threads : ListStoreVariant(t)
    \/ \E key \in DOMAIN cache : CacheExpire(key)
SpecInval == Init /\ [][NextInval]_vars
\* listings of one location under several sort orders and compressed filters,
\* while the bucket is mutated
VariantSortOrders == {"name_asc", "size_desc"}
VariantCompressedFilters == {None, Some(FALSE)}
NextVariant ==
    \/ \E t \in Threads, so \in VariantSortOrders, cf \in VariantCompressedFilters :
          ListStart(t, CredA, "b1", "", so, cf, None, TRUE, FALSE)
    \/ \E t \in Threads : ListGetVariant(t)
    \/ \E t \in Threads : ListFetch(t)
    \/ \E t \in Threads : ListFetchFails(t)
    \/ \E t \in Threads : ListPrime(t)
    \/ \E t \in Threads : ListStoreVariant(t)
    \/ \E key \in DOMAIN cache : CacheExpire(key)
    \/ \E m \in Mutators, ks \in SUBSET ObjKeys : ApiMutate(m, "delete_object", "b1", ks)
    \/ \E m \in Mutators : ApiInvalidate(m)
SpecVariant == Init /\ [][NextVariant]_vars
\* reads of one location with every combination of fetch_metadata and
\* bypass_cache, under several sort orders and compressed filters
NextReads ==
    \/ \E t \in Threads, so \in VariantSortOrders, cf \in VariantCompressedFilters,
          fm \in BOOLEAN, bp \in BOOLEAN :
          ListStart(t, CredA, "b1", "", so, cf, None, fm, bp)
    \/ \E t \in Threads : ListGetVariant(t)
    \/ \E t \in Threads : ListFetch(t)
    \/ \E t \in Threads : ListFetchFails(t)
    \/ \E t \in Threads : ListPrime(t)
    \/ \E t \in Threads : ListStoreVariant(t)
    \/ \E key \in DOMAIN cache : CacheExpire(key)
SpecReads == Init /\ [][NextReads]_vars
SpecSort == Init /\ [][NextSort]_vars
SpecCache == Init /\ [][NextCache]_vars
SpecIso == Init /\ [][NextIso]_vars
SpecSession == Init /\ [][NextSession]_vars
SpecTwin == Init /\ [][NextTwin]_vars
\* logins with credentials whose region and endpoint hold the ":" of a host:port
CredP == Cred("minio:9000", "k1", "s1", "eu")
CredQ == Cred("9000", "k1", "s1", "eu:minio")
LoginCredentials == {CredA, CredA2, CredB, CredP, CredQ}
NextLogin ==
    \/ \E test_mode \in BOOLEAN : InitSessionStore(test_mode)
    \/ \E w \in Workers, c \in LoginCredentials : StoreAcquire(w, "create_or_reuse", c)
    \/ \E w \in Workers : MemCreateOrReuse(w)
    \/ \E w \in Workers : FsCreateOrReuse(w)
    \/ Tick
SpecLogin == Init /\ [][NextLogin]_vars
SpecLease == Init /\ [][NextLease]_vars
SpecSweep == Init /\ [][NextSweep]_vars
SpecStats == Init /\ [][NextStats]_vars
SpecPaging == Init /\ [][NextPaging]_vars
SpecLocks == Init /\ [][NextLocks]_vars
SpecTimer == Init /\ [][NextTimer]_vars
SpecBulk == Init /\ [][NextBulk]_vars
SpecStoreLocks == Init /\ [][NextStoreLocks]_vars /\ StoreLocksFairness
SpecCrash == Init /\ [][NextCrash]_vars
SpecCorrupt == Init /\ [][NextCorrupt]_vars
SpecJobs == Init /\ [][NextJobs]_vars
SpecPurge == Init /\ [][NextPurge]_vars
SpecFleet == Init /\ [][NextFleet]_vars

\* ================================================================ claims
AnsweredFromCache(t) == result[t].status = "ok" /\ result[t].src # "sdk"

C2_NoStaleAfterInvalidation ==
    /\ \A t \in Threads : result[t].status = "ok" => result[t].ver >= result[t].inval_floor
    /\ \A c \in Credentials, b \in Buckets, p \in Prefixes :
          LET key == _make_key(make_credentials_cache_key(c), b, p)
          IN key \in DOMAIN cache =>
                /\ cache[key].ver >= inval_ver[b]
                /\ \A vk \in DOMAIN cache[key].variants : cache[key].variants[vk].ver >= inval_ver[b]

\* C3: when a mutation endpoint returns its response, the shared listing cache
\* holds no entry for the mutated bucket.
C3_ResponseAfterInvalidation ==
    [][\A m \in Mutators :
          (mpc[m] = "invalidate" /\ mpc'[m] = "idle") =>
              \A key \in DOMAIN cache' :
                  ~(key \in DOMAIN key_index' /\ key_index'[key][1] = mreq[m].bucket)]_vars

\* sessions a get() would return: stored and not idle for longer than the TTL
LiveSessions == {sid \in DOMAIN sessions : ~_is_expired(sessions[sid], now)}

\* what count() returns
StoreCount == IF backend = "memory" THEN Cardinality(DOMAIN sessions) ELSE Len(access_order)

C4_AtMostOneLivePerHash ==
    \A s1, s2 \in LiveSessions :
        _hash_credentials(sessions[s1].credentials) = _hash_credentials(sessions[s2].credentials)
            => s1 = s2

C4_ReuseStep ==
    \A w \in Workers :
        (spc[w] = "locked" /\ sreq[w].op = "create_or_reuse" /\ spc'[w] = "idle") =>
            \A sid \in LiveSessions :
                _hash_credentials(sessions[sid].credentials) = _hash_credentials(sreq[w].credentials)
                    => sret'[w].value = sid /\ StoreCount' = StoreCount

\* C4: in both session stores at most one live session exists per credentials
\* hash, and a create_or_reuse whose credentials are those of a live session
\* returns that session's id and leaves count() unchanged.
C4_OneLiveSessionPerCredentials == []C4_AtMostOneLivePerHash /\ [][C4_ReuseStep]_vars

\* two concurrent callers of the filesystem store presented the same
\* credentials and both got the id of the one live session
C4_Witness ==
    /\ backend = "filesystem"
    /\ \A w \in Workers : sret[w].op = "create_or_reuse" /\ sret[w].value \in LiveSessions
    /\ sret["w1"].value = sret["w2"].value
    /\ StoreCount = 1

\* --------------------------------------------------------------------- C5
\* C5, state part: no bucket ever has two unfinished jobs, and whenever no
\* enqueue holds the runner's lock, pending(bucket) is true exactly while a job
\* for the bucket is unfinished (so it is false once the job completed).
C5_AtMostOneInFlight ==
    \A b \in Buckets :
        /\ Cardinality(InFlight(b)) <= 1
        /\ runner_lock = "free" => (JobRunnerPending(b) <=> InFlight(b) # {})

\* C5, step part: an enqueue that runs while a job for its bucket is unfinished
\* submits nothing and returns that job's task id.
C5_EnqueueStep ==
    \A c \in Clients :
        (jpc[c] = "enqueue" /\ jpc'[c] # "enqueue" /\ InFlight(jreq[c].bucket) # {})
            => /\ futures' = futures
               /\ jret'[c] = Some(CHOOSE i \in InFlight(jreq[c].bucket) : TRUE)
               /\ jpc'[c] = "idle"

\* C5: at most one compute job per bucket is in flight; an enqueue during a
\* running job returns the running job's task id and starts nothing; pending
\* is true while the job runs and false after it completes.
C5_SingleFlightPerBucket == []C5_AtMostOneInFlight /\ [][C5_EnqueueStep]_vars

\* two enqueue calls for b1 got the same task id, one job ran, and it is over
C5_Witness ==
    /\ Len(futures) = 1
    /\ futures[1].bucket = "b1"
    /\ jret["c1"] = Some(1)
    /\ jret["c2"] = Some(1)
    /\ Done(futures[1])
    /\ ~JobRunnerPending("b1")

\* --------------------------------------------------------------------- C6
\* C6, state part: at most one scheduler instance is running at a time, and it
\* is one whose start() returned true and that holds the flock; an instance
\* that is not running has no sweep scheduled.
C6_AtMostOneRunning ==
    /\ Cardinality({a \in Apps : _scheduler[a]}) <= 1
    /\ \A a \in Apps : _scheduler[a] => start_ret[a] = "true" /\ flock_holder = a /\ _lock_file[a]
    /\ \A a \in Apps : due[a] => _scheduler[a]

\* C6, step part: a start() that returns while another instance is running
\* returns false, holds no lock and schedules nothing.
C6_StartStep ==
    \A a \in Apps :
        (ppc[a] \in {"start", "start_locked"} /\ ppc'[a] = "idle" /\ alive'[ProcessOf(a)]
         /\ \E o \in Apps \ {a} : _scheduler[o])
            => start_ret'[a] = "false" /\ ~_scheduler'[a] /\ ~due'[a] /\ ~_lock_file'[a]

\* C6: among the PurgeScheduler instances on one lock file, in one process or
\* several, at most one at a time has started and has a sweep scheduled; start()
\* on another instance meanwhile returns false and schedules nothing.
C6_SingleLeader == []C6_AtMostOneRunning /\ [][C6_StartStep]_vars

\* a3 leads; a1 (other process) and a2 were refused while a3 was running
C6_Witness ==
    /\ _scheduler["a3"] /\ start_ret["a3"] = "true"
    /\ start_ret["a1"] = "false" /\ start_ret["a2"] = "false"
    /\ flock_holder = "a3"

\* --------------------------------------------------------------------- C7
\* C7: when a purge interval ends during which some worker process was running
\* throughout, exactly one sweep was run in it, never two and never none.
C7_IntervalStep ==
    (interval' = interval + 1 /\ up_all_interval # {}) => sweeps = 1

C7_OneSweepPerInterval == [][C7_IntervalStep]_vars

\* --------------------------------------------------------------------- C8
\* C8: a worker whose start() returned true keeps its scheduler running and
\* keeps the flock for as long as its process lives.
C8_LeaseStep ==
    \A a \in Apps :
        (start_ret[a] = "true" /\ _scheduler[a] /\ flock_holder = a /\ alive'[ProcessOf(a)])
            => _scheduler'[a] /\ flock_holder' = a

C8_LeaseForProcessLifetime == [][C8_LeaseStep]_vars


\* --------------------------------------------------------------------- C9
\* C9: a bucket carries the pending flag set at enqueue only while one of its
\* jobs is unfinished; once the job is done, by success or by exception, the
\* flag is gone.
C9_PendingClearedAfterCompletion ==
    \A b \in Buckets : is_pending(b) => InFlight(b) # {}

\* -------------------------------------------------------------------- C10
\* C10: when a job succeeds, the statistics cache read by list_buckets of the
\* session that requested it holds the computed snapshot, and the bucket is no
\* longer reported pending.
C10_SnapshotStep ==
    \A i \in FutureIds :
        (futures[i].state = "pushed" /\ futures'[i].state = "done_ok")
            => LET entry == ListBucketsEntry(futures[i].sdk, futures[i].bucket)'
               IN /\ entry.stats.computed_at = "now"
                  /\ entry.stats = BucketSnapshot(futures[i].bucket,
                                       SdkListObjects(storage[futures[i].bucket], "").objects)
                  /\ ~entry.pending

C10_SnapshotVisibleToRequester == [][C10_SnapshotStep]_vars

\* -------------------------------------------------------------------- C11
\* C11: when a compute job fails, the snapshot that was cached for its bucket
\* (in the requesting session's statistics cache) when the refresh was
\* requested is still cached, unchanged.
C11_FailStep ==
    \A i \in FutureIds :
        (futures[i].state = "running" /\ futures'[i].state = "done_error" /\ ~IsNone(futures[i].before))
            => stats_cache'[futures[i].sdk][futures[i].bucket] = futures[i].before

C11_StatsUntouchedByFailure == [][C11_FailStep]_vars

\* -------------------------------------------------------------------- C12
\* invalidate_bucket(b) runs in this step: a list_objects call with
\* bypass_cache starts
InvalidatedNow(b) ==
    \E t \in Threads : /\ pc[t] = "idle" /\ pc'[t] # "idle"
                       /\ req'[t].bypass /\ req'[t].bucket = b

ListingKey(c, b, p) == _make_key(make_credentials_cache_key(c), b, p)

C12_Step ==
    \A b \in Buckets :
        InvalidatedNow(b) =>
            /\ \A c \in Credentials, p \in Prefixes : ListingKey(c, b, p) \notin DOMAIN cache'
            /\ \A c \in Credentials, o \in Buckets \ {b}, p \in Prefixes :
                  ListingKey(c, o, p) \in DOMAIN cache =>
                      /\ ListingKey(c, o, p) \in DOMAIN cache'
                      /\ cache'[ListingKey(c, o, p)] = cache[ListingKey(c, o, p)]

\* C12: when invalidate_bucket(B) returns the cache holds no base listing or
\* variant for any credentials and prefix of B, whatever evictions and
\* re-primes came before, and every entry of another bucket is as it was.
C12_InvalidateBucketRemovesAll == [][C12_Step]_vars

\* t1 has just invalidated b1 by a bypass read after t2 was answered from b1's
\* cache; b1 has no entry left though the indexes saw an eviction, b2's entry stays
C12_Witness ==
    /\ pc["t1"] = "fetch" /\ req["t1"].bypass /\ req["t1"].bucket = "b1"
    /\ result["t2"].status = "ok" /\ result["t2"].src # "sdk" /\ result["t2"].bucket = "b1"
    /\ ListingKey(CredA, "b2", "") \in DOMAIN cache
    /\ \A c \in Credentials, p \in Prefixes : ListingKey(c, "b1", p) \notin DOMAIN cache

\* -------------------------------------------------------------------- C13
RECURSIVE SeqToSet(_)
SeqToSet(q) == IF q = <<>> THEN {} ELSE {Head(q)} \cup SeqToSet(Tail(q))

\* C13: in every state, each variant stored in a cache entry holds only
\* objects of the entry's present base listing, and the default variant is
\* what re-deriving it from that base gives.
C13_VariantsDerivedFromBase ==
    \A key \in DOMAIN cache :
        \A vk \in DOMAIN cache[key].variants :
            /\ SeqToSet(cache[key].variants[vk].objects) \subseteq SeqToSet(cache[key].objects)
            /\ vk = _variant_key("name_asc", None, None) =>
                  cache[key].variants[vk].objects = _filter_and_sort(cache[key].objects, "name_asc", None, None)

\* -------------------------------------------------------------------- C14
\* positions of the base listing that pass the filter: compressed flag as
\* asked (any when no filter), lower-cased key containing the lower-cased term
KeptPositions(a) ==
    {i \in DOMAIN a.objects :
        /\ (IsNone(a.compressed) \/ a.objects[i].compressed = Val(a.compressed))
        /\ (IsNone(a.search) \/ Val(a.search) = ""
              \/ IsSubSeq(LowerChars(Chars(Val(a.search))), LowerChars(Chars(a.objects[i].key))))}

RefValue(obj, sort_order) ==
    CASE sort_order \in {"name_asc", "name_desc"} -> obj.rank
      [] sort_order \in {"size_asc", "size_desc"} -> obj.original_bytes
      [] sort_order \in {"modified_asc", "modified_desc"} -> obj.modified

\* out is the kept objects, ordered by the sort value in the asked direction,
\* equal values in base-listing order
IsReferenceResult(a, out) ==
    \E f \in [DOMAIN out -> KeptPositions(a)] :
        /\ \A i, j \in DOMAIN out : i # j => f[i] # f[j]
        /\ Len(out) = Cardinality(KeptPositions(a))
        /\ \A i \in DOMAIN out : out[i] = a.objects[f[i]]
        /\ \A i, j \in DOMAIN out :
              i < j =>
                LET vi == RefValue(out[i], a.sort_order)
                    vj == RefValue(out[j], a.sort_order)
                IN /\ IF a.sort_order \in {"name_desc", "size_desc", "modified_desc"}
                      THEN vi >= vj ELSE vi <= vj
                   /\ vi = vj => f[i] < f[j]

\* C14: for every base listing, sort order, compressed filter and search term
\* the sequence list_objects pages over is the reference result: the filtered
\* base, stable-sorted in the asked direction.
C14_FilterSortIsReference ==
    ~IsNone(fs_out) => IsReferenceResult(Val(fs_in), Val(fs_out))

\* a descending sort by modification time over a listing with two objects of
\* equal time, filtered by an upper-case term that matches lower-cased keys:
\* one object is dropped and the two equal ones come out in base order
C14_Witness ==
    /\ ~IsNone(fs_out)
    /\ Val(fs_in).sort_order = "modified_desc"
    /\ Val(fs_in).search = Some("A")
    /\ Len(Val(fs_in).objects) = 3
    /\ Len(Val(fs_out)) = 2
    /\ Val(fs_out)[1].modified = Val(fs_out)[2].modified
    /\ Val(fs_out)[1].key = "Data.BIN"

\* -------------------------------------------------------------------- C15
ReqArgs(r) == <<r.sort_order, r.compressed, r.search>>

\* the variants of a live entry that were stored for the arguments of r
StoredFor(key, r) ==
    {cache[key].variants[vk] : vk \in {x \in DOMAIN cache[key].variants :
                                           cache[key].variants[x].args = ReqArgs(r)}}

\* the outcome of a get_variant call is fixed by the cache state it finds
C15_OutcomeStep ==
    \A t \in Threads :
        (pc[t] = "get_variant" /\ pc'[t] # "get_variant") =>
            LET r == req[t]
                key == ListingKey(r.cred, r.bucket, r.prefix)
            IN IF key \notin DOMAIN cache
               THEN \* nothing: the call goes on to the StorageSDK
                    pc'[t] = "fetch" /\ loc'[t] = NoLoc /\ result'[t] = NoResult
               ELSE IF StoredFor(key, r) # {}
               THEN \* the stored variant as it is, with the entry's common prefixes
                    /\ pc'[t] = "idle" /\ loc'[t] = NoLoc
                    /\ result'[t].status = "ok" /\ result'[t].src = "variant"
                    /\ \E v \in StoredFor(key, r) : result'[t].objects = v.objects
                    /\ result'[t].common_prefixes = cache[key].common_prefixes
               ELSE \* the base objects and common prefixes, no variant
                    /\ pc'[t] = "store" /\ result'[t] = NoResult
                    /\ loc'[t].base = Some(cache[key].objects)
                    /\ loc'[t].common_prefixes = cache[key].common_prefixes

PrimedNow(key) ==
    \E t \in Threads : pc[t] = "prime" /\ pc'[t] # "prime" /\ ReqKey(req[t]) = key

StoredNow(key, v) ==
    \E t \in Threads : /\ pc[t] = "store" /\ pc'[t] # "store" /\ ReqKey(req[t]) = key
                       /\ v.args = ReqArgs(req[t])

\* priming starts an entry without variants, and a variant only appears in a
\* live entry by a store_variant call for its arguments
C15_VariantsStep ==
    \A key \in DOMAIN cache' :
        IF PrimedNow(key) THEN cache'[key].variants = EmptyMap
        ELSE /\ key \in DOMAIN cache
             /\ \A vk \in DOMAIN cache'[key].variants :
                   \/ /\ vk \in DOMAIN cache[key].variants
                      /\ cache'[key].variants[vk] = cache[key].variants[vk]
                   \/ StoredNow(key, cache'[key].variants[vk])

\* C15: get_variant returns nothing when no base listing is live, the variant
\* stored under the same (sort, compressed, search) since the base listing was
\* last primed when there is one, and the base objects and common prefixes
\* otherwise.
C15_GetVariantOutcome == [][C15_OutcomeStep /\ C15_VariantsStep]_vars

\* after a mutation of the bucket, one caller was answered with a stored
\* variant while the other holds the base objects for a filter that has no
\* stored variant
C15_Witness ==
    /\ result["t1"].status = "ok" /\ result["t1"].src = "variant"
    /\ pc["t2"] = "store" /\ loc["t2"].src = "base"
    /\ req["t2"].compressed = Some(FALSE)
    /\ storage_ver["b1"] = 1

\* -------------------------------------------------------------------- C16
\* a base listing for (credentials key, bucket, prefix) is live in the cache
BaseLive(c, b, p) ==
    \E key \in DOMAIN cache \cap DOMAIN key_index :
        /\ key_index[key] = <<b, p>>
        /\ make_credentials_cache_key(cache[key].primed_by) = make_credentials_cache_key(c)

\* thread t turns to the StorageSDK in this step
TurnsToSdk(t) == pc[t] # "fetch" /\ pc'[t] = "fetch"

\* C16 (as stated): a list_objects call goes to the StorageSDK only when no
\* base listing is live for its (credentials key, bucket, prefix), or when it
\* bypasses the cache.
C16_FetchOnlyOnMissOrBypass ==
    [][\A t \in Threads :
          TurnsToSdk(t) =>
              \/ req'[t].bypass
              \/ ~BaseLive(req'[t].cred, req'[t].bucket, req'[t].prefix)]_vars

\* C16 (amended): the same for calls that fetch metadata; a call with
\* fetch_metadata unset does not use the cache and always goes to the StorageSDK.
C16_FetchOnlyOnMissBypassOrQuick ==
    [][\A t \in Threads :
          TurnsToSdk(t) =>
              \/ req'[t].bypass
              \/ ~req'[t].use_cache
              \/ ~BaseLive(req'[t].cred, req'[t].bucket, req'[t].prefix)]_vars

\* a call by size with a compressed filter was answered from the base listing
\* that the other thread primed, which is still live with both variants stored
C16_Witness ==
    /\ result["t2"].status = "ok" /\ result["t2"].src = "base"
    /\ result["t2"].by = CredA
    /\ BaseLive(CredA, "b1", "")
    /\ \E key \in DOMAIN cache : Cardinality(DOMAIN cache[key].variants) = 2
    /\ result["t1"].status = "ok" /\ result["t1"].src = "sdk"

\* -------------------------------------------------------------------- C17
\* C17: a list_objects call with bypass_cache is answered by the StorageSDK, and
\* a call that starts after a bypass read of its bucket has started is never
\* answered with data older than the bucket was when that bypass read started.
C17_FreshAfterBypass ==
    \A t \in Threads :
        result[t].status = "ok" =>
            /\ result[t].bypass => result[t].src = "sdk"
            /\ result[t].ver >= result[t].bypass_floor

\* -------------------------------------------------------------------- C18
\* the listing call of thread t fails in this step
FetchFailsNow(t) == pc[t] = "fetch" /\ pc'[t] = "idle" /\ result'[t].status # "ok"

\* every call that is at the StorageSDK can fail, and a call that ends there
\* ended with a listing from the StorageSDK or with the error
C18_Step ==
    \A t \in Threads :
        /\ FetchFailsNow(t) =>
              /\ result'[t].status = "error"
              /\ result'[t].error \in SdkErrors
              /\ "objects" \notin DOMAIN result'[t]
              /\ cache' = cache
              /\ <<bucket_index', prefix_index', key_index'>> = <<bucket_index, prefix_index, key_index>>
        /\ (pc[t] = "fetch" /\ pc'[t] = "idle" /\ result'[t].status = "ok") => result'[t].src = "sdk"

\* C18: a failing StorageSDK listing call ends list_objects with the error the
\* StorageSDK raised; the call returns no listing, cached or not, and leaves
\* the listing cache as it was.
C18_FailurePropagates == [][C18_Step]_vars

\* a call has failed while an entry for its location is in the cache, after a
\* mutation of the bucket was invalidated
C18_Witness ==
    /\ result["t1"].status = "error"
    /\ ListingKey(CredA, "b1", "") \in DOMAIN cache
    /\ inval_ver["b1"] >= 1
    /\ pc["t2"] = "idle"

\* -------------------------------------------------------------------- C19
\* worker w leaves create_or_reuse in this step having inserted a new session
\* for credentials no stored session has, into a store that held max_size sessions
InsertsAtCapacity(w) ==
    /\ spc[w] = "locked" /\ sreq[w].op = "create_or_reuse" /\ spc'[w] = "idle"
    /\ next_sid' = next_sid + 1
    /\ Cardinality(DOMAIN sessions) = SessionMaxSize
    /\ \A x \in DOMAIN sessions :
          _hash_credentials(sessions[x].credentials) # _hash_credentials(sreq[w].credentials)

C19_Step ==
    \A w \in Workers :
        InsertsAtCapacity(w) =>
            \E e \in DOMAIN sessions :
                /\ DOMAIN sessions' = (DOMAIN sessions \ {e}) \cup {next_sid}
                /\ \A x \in DOMAIN sessions \ {e} :
                      /\ sessions[e].last_accessed <= sessions[x].last_accessed
                      /\ sessions'[x] = sessions[x]
                /\ \A x \in DOMAIN sessions' : \E i \in DOMAIN access_order' : access_order'[i] = x
                /\ \A i \in DOMAIN access_order' : access_order'[i] # e

\* C19: an insertion by create_or_reuse into a store that holds max_size
\* sessions evicts exactly one session, one whose last access is not later
\* than any other's, and leaves every other session stored and listed.
C19_EvictsLeastRecentlyAccessed == [][C19_Step]_vars

\* the insertion of session 3 evicted session 2 although session 1 was created
\* first: session 1 had been accessed after session 2 was created
C19_Witness ==
    \E w \in Workers :
        /\ sret[w].op = "create_or_reuse"
        /\ sret[w].value = 3
        /\ sret[w].evicted = {2}
        /\ DOMAIN sessions = {1, 3}
        /\ backend = "memory"

GetsNow(w) == spc[w] = "locked" /\ sreq[w].op = "get" /\ spc'[w] = "idle"

Listed(order, sid) == \E i \in DOMAIN order : order[i] = sid

C21_Step ==
    \A w \in Workers :
        GetsNow(w) =>
            LET sid == sreq[w].session_id
            IN IF sid \in DOMAIN sessions /\ (now - sessions[sid].last_accessed) <= SessionTtl
               THEN /\ ~IsNone(sret'[w].value)
                    /\ Val(sret'[w].value).credentials = sessions[sid].credentials
                    /\ sid \in DOMAIN sessions'
               ELSE /\ IsNone(sret'[w].value)
                    /\ sid \notin DOMAIN sessions'
                    /\ ~Listed(access_order', sid)

\* C21: get(session_id) returns the session exactly when it is stored and its
\* idle time (now - last_accessed) is not greater than ttl; otherwise it
\* returns none and the session is in the store no more.
C21_GetIffStoredAndFresh == [][C21_Step]_vars

\* at time ttl + 1 one get found a session expired and removed it, and another
\* get returned a session, which is the one left in the store
C21_Witness ==
    /\ now = SessionTtl + 1
    /\ sret["w1"].op = "get" /\ sret["w1"].expired /\ IsNone(sret["w1"].value)
    /\ sret["w2"].op = "get" /\ ~IsNone(sret["w2"].value)
    /\ Val(sret["w2"].value).last_accessed = now
    /\ Cardinality(DOMAIN sessions) = 1

\* -------------------------------------------------------------------- C22
C22_Step ==
    \A w \in Workers :
        LET sid == sreq[w].session_id
        IN (GetsNow(w) /\ sid \in DOMAIN sessions
                /\ (now - sessions[sid].last_accessed) <= SessionTtl) =>
              /\ ~IsNone(sret'[w].value)
              /\ Val(sret'[w].value).last_accessed = now
              /\ sessions'[sid] = [sessions[sid] EXCEPT !.last_accessed = now]
              /\ access_order' # <<>> /\ access_order'[Len(access_order')] = sid

\* C22: a get of a stored session whose idle time is at most ttl succeeds
\* whatever the session's age, sets last_accessed to the current time and
\* moves the session to the most-recently-used end of the eviction order.
C22_SlidingIdleExpiry == [][C22_Step]_vars

\* a get has returned a session that is older than ttl, while another, newer
\* session is stored behind it in the eviction order
C22_Witness ==
    \E w \in Workers :
        /\ sret[w].op = "get" /\ ~IsNone(sret[w].value)
        /\ now - Val(sret[w].value).created_at > SessionTtl
        /\ Val(sret[w].value).last_accessed = now
        /\ Len(access_order) = 2
        /\ sessions[access_order[2]] = Val(sret[w].value)
        /\ sessions[access_order[1]].created_at > sessions[access_order[2]].created_at

\* -------------------------------------------------------------------- C23
\* C23: create_or_reuse returns the id of a session already stored only to
\* credentials that agree with that session's on access key, secret, region
\* and endpoint.
C23_ReuseOnlyForEqualCredentials ==
    [][\A w \in Workers :
          (spc[w] = "locked" /\ sreq[w].op = "create_or_reuse" /\ spc'[w] = "idle"
              /\ sret'[w].value \in DOMAIN sessions) =>
                sessions[sret'[w].value].credentials = sreq[w].credentials]_vars

C25_Step ==
    backend = "filesystem" =>
        /\ \A w \in Workers :
              \* a new session is stored with the credentials of its creator
              /\ (spc[w] = "locked" /\ sreq[w].op = "create_or_reuse" /\ spc'[w] = "idle"
                      /\ sret'[w].new) =>
                    /\ sret'[w].value \in DOMAIN sessions'
                    /\ sessions'[sret'[w].value].credentials = sreq[w].credentials
              \* get by any instance returns a stored, unexpired session
              /\ (GetsNow(w) /\ sreq[w].session_id \in LiveSessions) =>
                    /\ ~IsNone(sret'[w].value)
                    /\ Val(sret'[w].value).credentials = sessions[sreq[w].session_id].credentials
              \* and none for a session that is gone
              /\ (GetsNow(w) /\ sreq[w].session_id \notin DOMAIN sessions) => IsNone(sret'[w].value)
        /\ \A sid \in SessionIds :
              \* a stored session keeps its credentials
              /\ (sid \in DOMAIN sessions /\ sid \in DOMAIN sessions') =>
                    sessions'[sid].credentials = sessions[sid].credentials
              \* a session that was deleted, evicted or expired stays absent
              /\ (sid < next_sid /\ sid \notin DOMAIN sessions) => sid \notin DOMAIN sessions'

\* C25: a session created through one FileSystemSessionStore instance is
\* returned with its credentials by get on every instance on the same
\* directory while it is stored and unexpired, and once an instance deleted,
\* evicted or expired it, it is absent for every instance.
C25_SharedAcrossInstances == [][C25_Step]_vars

\* w1 created session 1 and w2 got it; w2's earlier session 2 is gone
C25_Witness ==
    /\ backend = "filesystem"
    /\ sret["w1"].op = "create_or_reuse" /\ sret["w1"].new /\ sret["w1"].value = 1
    /\ sret["w2"].op = "get" /\ ~IsNone(sret["w2"].value)
    /\ 1 \in DOMAIN sessions /\ Val(sret["w2"].value) = sessions[1]
    /\ sessions[1].credentials = CredB

\* -------------------------------------------------------------------- C26
\* the index lists exactly the session files, each once
IndexMatchesFiles ==
    /\ {access_order[i] : i \in DOMAIN access_order} = DOMAIN sessions
    /\ \A i, j \in DOMAIN access_order : access_order[i] = access_order[j] => i = j

C26_State ==
    /\ store_lock = "free" => IndexMatchesFiles
    \* a process between its read and its write holds the lock, and the index
    \* it read is still the index on disk
    /\ \A w \in Workers :
          spc[w] = "locked" =>
              /\ store_lock = w
              /\ "access_order" \in DOMAIN sloc[w] => sloc[w].access_order = access_order

C26_Step ==
    /\ C26_State /\ C26_State'
    \* the index and the session files change only in a step of the lock holder
    /\ (access_order' # access_order \/ sessions' # sessions) =>
          /\ store_lock \in Workers
          /\ spc[store_lock] = "locked" /\ spc'[store_lock] = "idle"
          /\ store_lock' = "free"

C27_IndexReadIsWhole ==
    fsenv.lock = "free" => _read_index(disk.index) \in {fsenv.committed, fsenv.written}

\* -------------------------------------------------------------------- C28
\* process p returns from a store call in this step
DiskReturns(p) ==
    /\ fsproc'[p].pc = "idle" /\ fsproc'[p] # fsproc[p]
    /\ fsproc'[p].ret.op \notin {"none", "killed"}

IndexListsAfter(sid) == sid \in Listed_in(_read_index(disk'.index))

\* get of a session whose file went bad returns none, create_or_reuse with
\* its credentials returns another, readable session
C28_TreatedAsAbsentStep ==
    \A p \in Workers : \A c \in fsenv.corrupted :
        /\ (DiskReturns(p) /\ fsproc'[p].call = <<"get", c.id>>) =>
              IsNone(fsproc'[p].ret.value)
        /\ (DiskReturns(p) /\ fsproc'[p].call = <<"create_or_reuse", c.credentials>>) =>
              /\ fsproc'[p].ret.value # c.id
              /\ fsproc'[p].ret.value \in DOMAIN disk'.files
              /\ disk'.files[fsproc'[p].ret.value].readable

\* a call on a directory with a bad file leaves every other session usable:
\* get of a readable, unexpired session returns it
C28_OthersUsableStep ==
    \A p \in Workers : \A sid \in SessionIds :
        (/\ fsproc[p].pc = "idle" /\ fsproc'[p] # fsproc[p]
         /\ fsproc'[p].call = <<"get", sid>>
         /\ sid \in DOMAIN disk.files /\ disk.files[sid].readable
         /\ ~_is_expired(disk.files[sid].data, fsenv.now)) =>
            /\ fsproc'[p].pc = "writing"
            /\ ~IsNone(fsproc'[p].out.value)
            /\ Val(fsproc'[p].out.value).credentials = disk.files[sid].data.credentials

\* after get or create_or_reuse met the bad file, the index does not list it
C28_IndexCleanedStep ==
    \A p \in Workers : \A c \in fsenv.corrupted :
        (DiskReturns(p) /\ fsproc'[p].call \in {<<"get", c.id>>,
                                               <<"create_or_reuse", c.credentials>>}) =>
            ~IndexListsAfter(c.id)

\* the part of C28 that does not speak of the index
C28_FailsOpen == [][C28_TreatedAsAbsentStep /\ C28_OthersUsableStep]_vars

\* C28: a session whose file is corrupt is treated as absent: get returns
\* none, create_or_reuse with its credentials gives a fresh session, the index
\* no longer lists it afterwards, and the other sessions stay usable.
C28_CorruptTreatedAsAbsent ==
    [][C28_TreatedAsAbsentStep /\ C28_OthersUsableStep /\ C28_IndexCleanedStep]_vars

\* -------------------------------------------------------------------- C29
C29_Step ==
    /\ \A a \in Apps :
          \* the leader's stop() returns, or its process ends: the lease is free
          /\ (flock_holder = a /\ ppc[a] = "release" /\ ppc'[a] = "idle") => flock_holder' = "none"
          /\ (flock_holder = a /\ alive[ProcessOf(a)] /\ ~alive'[ProcessOf(a)]) =>
                flock_holder' = "none"
          \* a start() that finds the lease free takes it
          /\ (ppc[a] = "start" /\ ppc'[a] # "start" /\ alive'[ProcessOf(a)]
                  /\ flock_holder = "none" /\ ~_scheduler[a]) =>
                /\ flock_holder' = a
                /\ ppc'[a] = "start_locked"
          \* and then returns true with the sweep scheduled
          /\ (ppc[a] = "start_locked" /\ ppc'[a] = "idle" /\ alive'[ProcessOf(a)]) =>
                /\ start_ret'[a] = "true"
                /\ _scheduler'[a] /\ due'[a]
                /\ flock_holder' = a
          \* start() returns false only when the lease was taken or the instance runs
          /\ (ppc[a] = "start" /\ ppc'[a] = "idle" /\ alive'[ProcessOf(a)]) =>
                /\ start_ret'[a] = "false"
                /\ flock_holder # "none" \/ _scheduler[a]

C30_LeaseFileHoldsLeaderPid ==
    flock_holder # "none" => lock_text = PidText(getpid(ProcessOf(flock_holder)))

\* -------------------------------------------------------------------- C31
\* C31: a sweep that has returned attempted the purge once for every bucket
\* of the bucket listing, in spite of the buckets whose purge raised, and did
\* not raise itself.
C31_EveryListedBucketAttempted ==
    sweep.pc = "done" => /\ sweep.attempted = sweep.listed
                         /\ ~sweep.raised

\* -------------------------------------------------------------------- C32
\* thread t returns from list_buckets in this step
ListsBucketsNow(t) == bthr[t].pc = "listing" /\ bthr'[t].pc = "idle"

C32_Step ==
    /\ \A t \in StatsThreads : \A b \in Buckets :
          ListsBucketsNow(t) =>
              LET e == bc.entries[b]
                  fresh == /\ ~IsNone(e)
                           /\ (bc.monotonic - Val(e).ts) <= StatsTtl
                           /\ b \notin bc.mutated
              IN bthr'[t].ret[b] = IF fresh THEN Val(e).snapshot ELSE _placeholder_snapshot(b)
    \* a mutation of one bucket leaves the other buckets' entries alone
    /\ \A t \in StatsThreads : \A b \in Buckets :
          (bthr[t].pc = "invalidate" /\ bthr'[t].pc = "idle" /\ b # bthr[t].bucket) =>
              bc'.entries[b] = bc.entries[b]

\* C32: list_buckets without stats computation returns a bucket's cached
\* snapshot exactly while it is within its TTL and no upload, delete_object or
\* delete_objects on the bucket has completed since it was cached, and the
\* placeholder otherwise; a mutation leaves other buckets' snapshots cached.
C32_CachedOnlyWhileFresh == [][C32_Step]_vars

\* b1 was mutated after its snapshot was cached and lists as a placeholder
\* while b2 still lists its cached snapshot
C32_Witness ==
    /\ "b1" \in bc.mutated
    /\ bthr["t1"].pc = "idle" /\ "ret" \in DOMAIN bthr["t1"]
    /\ bthr["t1"].ret["b1"] = _placeholder_snapshot("b1")
    /\ ~IsNone(bc.entries["b2"])
    /\ bthr["t1"].ret["b2"] = Val(bc.entries["b2"]).snapshot

IsPrefixOf(s, t) == Len(s) <= Len(t) /\ SubSeq(t, 1, Len(s)) = s

C33_State ==
    pg.pages > 0 =>
        \* what has been visited is the sorted, filtered result up to here
        /\ IsPrefixOf(pg.visited, ObjectItems(pg.sorted))
        \* the cursor is none exactly on the page that reaches the end
        /\ IsNone(pg.cursor) <=> Len(pg.visited) = Len(pg.sorted)
        /\ pg.phase = "end" <=> IsNone(pg.cursor)
        \* a returned cursor is one the next request accepts
        /\ decode_cursor(pg.cursor).ok

\* C33: following the cursor of each list_objects page until it is none visits
\* every object of the sorted, filtered result exactly once and in sorted
\* order, and the cursor is none exactly on the page that reaches the end.
C33_CursorWalkVisitsAllOnce == C33_State

\* a walk of three pages of one object each has reached the end
C33_Witness ==
    /\ pg.phase = "end"
    /\ pg.pages = 3
    /\ pg.limit = 1
    /\ Len(pg.visited) = 3
    /\ pg.sort_order = "size_desc"

\* C39: for a fixed cached base listing and fixed request parameters,
\* list_objects returns the same objects, common prefixes, cursor and limited
\* flag whether the variant is derived from the base or served from the stored
\* variant.
C39_SameResponseHitOrMiss ==
    (pg.pages > 0 /\ pg.src = "variant") => pg.resp = pg.from_base

IndexedKeys ==
    (DOMAIN key_index)
        \cup UNION {bucket_index[b] : b \in DOMAIN bucket_index}
        \cup UNION {prefix_index[bp] : bp \in DOMAIN prefix_index}

\* C34: in every state another thread can observe, a cache key is in the bucket
\* index and the (bucket, prefix) index exactly when the TTL map holds an entry
\* for it, so no index entry points at an evicted slot.
C34_IndexesMatchTtlMap ==
    /\ \A key \in DOMAIN cache :
          /\ key \in DOMAIN key_index
          /\ key \in bucket_index[key_index[key][1]]
          /\ key \in prefix_index[key_index[key]]
    /\ \A key \in IndexedKeys : key \in DOMAIN cache

\* C35: no thread performs a StorageSDK call while it holds the listing-cache
\* lock, the stats-cache lock, the job-runner lock or a session-store lock.
C35_NoSdkCallUnderLock ==
    \A t \in LockThreads : AtInstr(t, "sdk") => HeldBy(t) = {}

\* t1 is about to fetch the listing between two cache sections while t2 is
\* inside the cache lock
C35_Witness ==
    /\ lthr["t1"].op = "list_objects" /\ lthr["t1"].ip = 3
    /\ AtInstr("t1", "sdk")
    /\ lheld["list_cache"].holder = "t2"

\* C36: a PurgeScheduler built with interval_hours = h whose start() returned
\* true runs one sweep immediately and thereafter one sweep every h hours: the
\* sweeps run so far are those at the multiples of h hours since the start.
C36_SweepEveryIntervalHours ==
    (tmr.running /\ ~tmr.startup) =>
        \A m \in 0..MaxClockMinutes :
            m \in tmr.runs <=>
                /\ m % HoursInMinutes(tmr.interval_hours) = 0
                /\ (m < tmr.now \/ (m = tmr.now /\ tmr.next_fire > tmr.now))

\* every request made so far has returned and was given the id of task i
AllGiven(i) == \A c \in Clients : jpc[c] = "idle" /\ jret[c] = Some(i)

C37_Step ==
    \A i \in FutureIds :
        (futures[i].state = "pushed" /\ futures'[i].state = "done_ok" /\ AllGiven(i))
            => stats_cache'["container"][futures[i].bucket] = futures[i].snapshot

\* C37: under any interleaving of compute-savings requests for a bucket with a
\* running job for it, when the task whose id a request was given completes
\* successfully the statistics cache the job writes to holds that task's
\* snapshot: no request's invalidation before enqueue erases it.
C37_ResultSurvivesInvalidation == [][C37_Step]_vars

\* C38: bulk_delete_objects never raises: when the StorageSDK call succeeds it
\* returns every requested key as deleted with no errors and has invalidated
\* the bucket's listing cache; on any StorageSDK failure it returns no deleted
\* key and one error entry per requested key.
C38_BulkDeleteNeverRaises ==
    bulk.pc = "done" =>
        /\ IsNone(bulk.result.raised)
        /\ bulk.outcome = "ok" =>
              /\ bulk.result.deleted = bulk.keys
              /\ bulk.result.errors = <<>>
              /\ bulk.result.invalidated = {bulk.bucket}
        /\ bulk.outcome # "ok" =>
              /\ bulk.result.deleted = <<>>
              /\ Len(bulk.result.errors) = Len(bulk.keys)
              /\ \A i \in 1..Len(bulk.keys) : bulk.result.errors[i].key = bulk.keys[i]

C40_LocksFreeWhenIdle ==
    \A t \in StoreThreads :
        sl_thr[t].pc = "idle" => (sl_flock # t /\ sl_mutex[StoreProcessOf(t)] # t)

C40_EveryCallCompletes ==
    \A t \in StoreThreads : (sl_thr[t].pc # "idle") ~> (sl_thr[t].pc = "idle")

====
